---- MODULE Spec2Model ----
(***************************************************************************)
(* A model of jill/filters.py: the NameFilter rule objects, the validators *)
(* and generate_info.  A Python string is modelled as the sequence of its  *)
(* code points (integers 0..1114111), so that str.lstrip, str.split,       *)
(* str.join, str.capitalize, str.upper and the version regular expression  *)
(* are computed character by character, the way the interpreter computes   *)
(* them, for every character a str can hold.                               *)
(* A call that returns v is Ok(v); a call that raises is Raise (the assert  *)
(* of a filter) or TypeError (the arguments do not bind).                  *)
(***************************************************************************)
EXTENDS Integers, Sequences, FiniteSets, TLC

VARIABLES op, args, kwargs, result

vars == <<op, args, kwargs, result>>

(***************************************************************************)
(* Bounds of the explored inputs.                                          *)
(***************************************************************************)
\* the longest run of digits tried for each of major, minor and patch
MaxDigits == 2

(***************************************************************************)
(* Notation for string literals: str(<<"w","i","n">>) is the string "win", *)
(* the sequence of the code points of its characters.                      *)
(***************************************************************************)
AsciiLower == <<"a","b","c","d","e","f","g","h","i","j","k","l","m",
                "n","o","p","q","r","s","t","u","v","w","x","y","z">>

AsciiUpper == <<"A","B","C","D","E","F","G","H","I","J","K","L","M",
                "N","O","P","Q","R","S","T","U","V","W","X","Y","Z">>

AsciiDigit == <<"0","1","2","3","4","5","6","7","8","9">>

Range(s) == {s[i] : i \in DOMAIN s}

IndexOf(s, c) == CHOOSE i \in DOMAIN s : s[i] = c

\* the code point of a character a literal of the module is written with
ord(c) ==
    CASE c \in Range(AsciiLower) -> 96 + IndexOf(AsciiLower, c)
      [] c \in Range(AsciiUpper) -> 64 + IndexOf(AsciiUpper, c)
      [] c \in Range(AsciiDigit) -> 47 + IndexOf(AsciiDigit, c)
      [] c = "-" -> 45
      [] c = "." -> 46
      [] c = "_" -> 95

\* a string literal: the code points of its characters
str(s) == [i \in DOMAIN s |-> ord(s[i])]

\* 'v', '.' and '-'
LATIN_SMALL_LETTER_V == ord("v")

FULL_STOP == ord(".")

HYPHEN_MINUS == ord("-")

\* the capital sigma and the two small sigmas str.capitalize chooses between
GREEK_CAPITAL_LETTER_SIGMA == 931

GREEK_SMALL_LETTER_FINAL_SIGMA == 962

GREEK_SMALL_LETTER_SIGMA == 963

(***************************************************************************)
(* The Unicode character database of the interpreter (CPython 3.11,        *)
(* Unicode 14.0.0), as the str methods and the re module read it.  Python  *)
(* strings are Unicode: str.upper and str.capitalize follow the full case  *)
(* mappings, which may change length (sharp s), and the classes \d and \w  *)
(* of a str pattern are the Unicode ones.  A table of ranges lists         *)
(* <<first, last, ...>> in increasing order, the ranges disjoint.          *)
(***************************************************************************)
\* the code points \d matches (decimal digits, category Nd): <<first, last>>
DecimalRanges ==
  <<
    <<48, 57>>, <<1632, 1641>>, <<1776, 1785>>, <<1984, 1993>>, <<2406, 2415>>, <<2534, 2543>>,
    <<2662, 2671>>, <<2790, 2799>>, <<2918, 2927>>, <<3046, 3055>>, <<3174, 3183>>,
    <<3302, 3311>>, <<3430, 3439>>, <<3558, 3567>>, <<3664, 3673>>, <<3792, 3801>>,
    <<3872, 3881>>, <<4160, 4169>>, <<4240, 4249>>, <<6112, 6121>>, <<6160, 6169>>,
    <<6470, 6479>>, <<6608, 6617>>, <<6784, 6793>>, <<6800, 6809>>, <<6992, 7001>>,
    <<7088, 7097>>, <<7232, 7241>>, <<7248, 7257>>, <<42528, 42537>>, <<43216, 43225>>,
    <<43264, 43273>>, <<43472, 43481>>, <<43504, 43513>>, <<43600, 43609>>, <<44016, 44025>>,
    <<65296, 65305>>, <<66720, 66729>>, <<68912, 68921>>, <<69734, 69743>>, <<69872, 69881>>,
    <<69942, 69951>>, <<70096, 70105>>, <<70384, 70393>>, <<70736, 70745>>, <<70864, 70873>>,
    <<71248, 71257>>, <<71360, 71369>>, <<71472, 71481>>, <<71904, 71913>>, <<72016, 72025>>,
    <<72784, 72793>>, <<73040, 73049>>, <<73120, 73129>>, <<92768, 92777>>, <<92864, 92873>>,
    <<93008, 93017>>, <<120782, 120831>>, <<123200, 123209>>, <<123632, 123641>>,
    <<125264, 125273>>, <<130032, 130041>>
  >>

\* the code points \w matches (alphanumeric, or the underscore): <<first, last>>
WordRanges ==
  <<
    <<48, 57>>, <<65, 90>>, <<95, 95>>, <<97, 122>>, <<170, 170>>, <<178, 179>>, <<181, 181>>,
    <<185, 186>>, <<188, 190>>, <<192, 214>>, <<216, 246>>, <<248, 705>>, <<710, 721>>,
    <<736, 740>>, <<748, 748>>, <<750, 750>>, <<880, 884>>, <<886, 887>>, <<890, 893>>,
    <<895, 895>>, <<902, 902>>, <<904, 906>>, <<908, 908>>, <<910, 929>>, <<931, 1013>>,
    <<1015, 1153>>, <<1162, 1327>>, <<1329, 1366>>, <<1369, 1369>>, <<1376, 1416>>,
    <<1488, 1514>>, <<1519, 1522>>, <<1568, 1610>>, <<1632, 1641>>, <<1646, 1647>>,
    <<1649, 1747>>, <<1749, 1749>>, <<1765, 1766>>, <<1774, 1788>>, <<1791, 1791>>,
    <<1808, 1808>>, <<1810, 1839>>, <<1869, 1957>>, <<1969, 1969>>, <<1984, 2026>>,
    <<2036, 2037>>, <<2042, 2042>>, <<2048, 2069>>, <<2074, 2074>>, <<2084, 2084>>,
    <<2088, 2088>>, <<2112, 2136>>, <<2144, 2154>>, <<2160, 2183>>, <<2185, 2190>>,
    <<2208, 2249>>, <<2308, 2361>>, <<2365, 2365>>, <<2384, 2384>>, <<2392, 2401>>,
    <<2406, 2415>>, <<2417, 2432>>, <<2437, 2444>>, <<2447, 2448>>, <<2451, 2472>>,
    <<2474, 2480>>, <<2482, 2482>>, <<2486, 2489>>, <<2493, 2493>>, <<2510, 2510>>,
    <<2524, 2525>>, <<2527, 2529>>, <<2534, 2545>>, <<2548, 2553>>, <<2556, 2556>>,
    <<2565, 2570>>, <<2575, 2576>>, <<2579, 2600>>, <<2602, 2608>>, <<2610, 2611>>,
    <<2613, 2614>>, <<2616, 2617>>, <<2649, 2652>>, <<2654, 2654>>, <<2662, 2671>>,
    <<2674, 2676>>, <<2693, 2701>>, <<2703, 2705>>, <<2707, 2728>>, <<2730, 2736>>,
    <<2738, 2739>>, <<2741, 2745>>, <<2749, 2749>>, <<2768, 2768>>, <<2784, 2785>>,
    <<2790, 2799>>, <<2809, 2809>>, <<2821, 2828>>, <<2831, 2832>>, <<2835, 2856>>,
    <<2858, 2864>>, <<2866, 2867>>, <<2869, 2873>>, <<2877, 2877>>, <<2908, 2909>>,
    <<2911, 2913>>, <<2918, 2927>>, <<2929, 2935>>, <<2947, 2947>>, <<2949, 2954>>,
    <<2958, 2960>>, <<2962, 2965>>, <<2969, 2970>>, <<2972, 2972>>, <<2974, 2975>>,
    <<2979, 2980>>, <<2984, 2986>>, <<2990, 3001>>, <<3024, 3024>>, <<3046, 3058>>,
    <<3077, 3084>>, <<3086, 3088>>, <<3090, 3112>>, <<3114, 3129>>, <<3133, 3133>>,
    <<3160, 3162>>, <<3165, 3165>>, <<3168, 3169>>, <<3174, 3183>>, <<3192, 3198>>,
    <<3200, 3200>>, <<3205, 3212>>, <<3214, 3216>>, <<3218, 3240>>, <<3242, 3251>>,
    <<3253, 3257>>, <<3261, 3261>>, <<3293, 3294>>, <<3296, 3297>>, <<3302, 3311>>,
    <<3313, 3314>>, <<3332, 3340>>, <<3342, 3344>>, <<3346, 3386>>, <<3389, 3389>>,
    <<3406, 3406>>, <<3412, 3414>>, <<3416, 3425>>, <<3430, 3448>>, <<3450, 3455>>,
    <<3461, 3478>>, <<3482, 3505>>, <<3507, 3515>>, <<3517, 3517>>, <<3520, 3526>>,
    <<3558, 3567>>, <<3585, 3632>>, <<3634, 3635>>, <<3648, 3654>>, <<3664, 3673>>,
    <<3713, 3714>>, <<3716, 3716>>, <<3718, 3722>>, <<3724, 3747>>, <<3749, 3749>>,
    <<3751, 3760>>, <<3762, 3763>>, <<3773, 3773>>, <<3776, 3780>>, <<3782, 3782>>,
    <<3792, 3801>>, <<3804, 3807>>, <<3840, 3840>>, <<3872, 3891>>, <<3904, 3911>>,
    <<3913, 3948>>, <<3976, 3980>>, <<4096, 4138>>, <<4159, 4169>>, <<4176, 4181>>,
    <<4186, 4189>>, <<4193, 4193>>, <<4197, 4198>>, <<4206, 4208>>, <<4213, 4225>>,
    <<4238, 4238>>, <<4240, 4249>>, <<4256, 4293>>, <<4295, 4295>>, <<4301, 4301>>,
    <<4304, 4346>>, <<4348, 4680>>, <<4682, 4685>>, <<4688, 4694>>, <<4696, 4696>>,
    <<4698, 4701>>, <<4704, 4744>>, <<4746, 4749>>, <<4752, 4784>>, <<4786, 4789>>,
    <<4792, 4798>>, <<4800, 4800>>, <<4802, 4805>>, <<4808, 4822>>, <<4824, 4880>>,
    <<4882, 4885>>, <<4888, 4954>>, <<4969, 4988>>, <<4992, 5007>>, <<5024, 5109>>,
    <<5112, 5117>>, <<5121, 5740>>, <<5743, 5759>>, <<5761, 5786>>, <<5792, 5866>>,
    <<5870, 5880>>, <<5888, 5905>>, <<5919, 5937>>, <<5952, 5969>>, <<5984, 5996>>,
    <<5998, 6000>>, <<6016, 6067>>, <<6103, 6103>>, <<6108, 6108>>, <<6112, 6121>>,
    <<6128, 6137>>, <<6160, 6169>>, <<6176, 6264>>, <<6272, 6276>>, <<6279, 6312>>,
    <<6314, 6314>>, <<6320, 6389>>, <<6400, 6430>>, <<6470, 6509>>, <<6512, 6516>>,
    <<6528, 6571>>, <<6576, 6601>>, <<6608, 6618>>, <<6656, 6678>>, <<6688, 6740>>,
    <<6784, 6793>>, <<6800, 6809>>, <<6823, 6823>>, <<6917, 6963>>, <<6981, 6988>>,
    <<6992, 7001>>, <<7043, 7072>>, <<7086, 7141>>, <<7168, 7203>>, <<7232, 7241>>,
    <<7245, 7293>>, <<7296, 7304>>, <<7312, 7354>>, <<7357, 7359>>, <<7401, 7404>>,
    <<7406, 7411>>, <<7413, 7414>>, <<7418, 7418>>, <<7424, 7615>>, <<7680, 7957>>,
    <<7960, 7965>>, <<7968, 8005>>, <<8008, 8013>>, <<8016, 8023>>, <<8025, 8025>>,
    <<8027, 8027>>, <<8029, 8029>>, <<8031, 8061>>, <<8064, 8116>>, <<8118, 8124>>,
    <<8126, 8126>>, <<8130, 8132>>, <<8134, 8140>>, <<8144, 8147>>, <<8150, 8155>>,
    <<8160, 8172>>, <<8178, 8180>>, <<8182, 8188>>, <<8304, 8305>>, <<8308, 8313>>,
    <<8319, 8329>>, <<8336, 8348>>, <<8450, 8450>>, <<8455, 8455>>, <<8458, 8467>>,
    <<8469, 8469>>, <<8473, 8477>>, <<8484, 8484>>, <<8486, 8486>>, <<8488, 8488>>,
    <<8490, 8493>>, <<8495, 8505>>, <<8508, 8511>>, <<8517, 8521>>, <<8526, 8526>>,
    <<8528, 8585>>, <<9312, 9371>>, <<9450, 9471>>, <<10102, 10131>>, <<11264, 11492>>,
    <<11499, 11502>>, <<11506, 11507>>, <<11517, 11517>>, <<11520, 11557>>, <<11559, 11559>>,
    <<11565, 11565>>, <<11568, 11623>>, <<11631, 11631>>, <<11648, 11670>>, <<11680, 11686>>,
    <<11688, 11694>>, <<11696, 11702>>, <<11704, 11710>>, <<11712, 11718>>, <<11720, 11726>>,
    <<11728, 11734>>, <<11736, 11742>>, <<11823, 11823>>, <<12293, 12295>>, <<12321, 12329>>,
    <<12337, 12341>>, <<12344, 12348>>, <<12353, 12438>>, <<12445, 12447>>, <<12449, 12538>>,
    <<12540, 12543>>, <<12549, 12591>>, <<12593, 12686>>, <<12690, 12693>>, <<12704, 12735>>,
    <<12784, 12799>>, <<12832, 12841>>, <<12872, 12879>>, <<12881, 12895>>, <<12928, 12937>>,
    <<12977, 12991>>, <<13312, 19903>>, <<19968, 42124>>, <<42192, 42237>>, <<42240, 42508>>,
    <<42512, 42539>>, <<42560, 42606>>, <<42623, 42653>>, <<42656, 42735>>, <<42775, 42783>>,
    <<42786, 42888>>, <<42891, 42954>>, <<42960, 42961>>, <<42963, 42963>>, <<42965, 42969>>,
    <<42994, 43009>>, <<43011, 43013>>, <<43015, 43018>>, <<43020, 43042>>, <<43056, 43061>>,
    <<43072, 43123>>, <<43138, 43187>>, <<43216, 43225>>, <<43250, 43255>>, <<43259, 43259>>,
    <<43261, 43262>>, <<43264, 43301>>, <<43312, 43334>>, <<43360, 43388>>, <<43396, 43442>>,
    <<43471, 43481>>, <<43488, 43492>>, <<43494, 43518>>, <<43520, 43560>>, <<43584, 43586>>,
    <<43588, 43595>>, <<43600, 43609>>, <<43616, 43638>>, <<43642, 43642>>, <<43646, 43695>>,
    <<43697, 43697>>, <<43701, 43702>>, <<43705, 43709>>, <<43712, 43712>>, <<43714, 43714>>,
    <<43739, 43741>>, <<43744, 43754>>, <<43762, 43764>>, <<43777, 43782>>, <<43785, 43790>>,
    <<43793, 43798>>, <<43808, 43814>>, <<43816, 43822>>, <<43824, 43866>>, <<43868, 43881>>,
    <<43888, 44002>>, <<44016, 44025>>, <<44032, 55203>>, <<55216, 55238>>, <<55243, 55291>>,
    <<63744, 64109>>, <<64112, 64217>>, <<64256, 64262>>, <<64275, 64279>>, <<64285, 64285>>,
    <<64287, 64296>>, <<64298, 64310>>, <<64312, 64316>>, <<64318, 64318>>, <<64320, 64321>>,
    <<64323, 64324>>, <<64326, 64433>>, <<64467, 64829>>, <<64848, 64911>>, <<64914, 64967>>,
    <<65008, 65019>>, <<65136, 65140>>, <<65142, 65276>>, <<65296, 65305>>, <<65313, 65338>>,
    <<65345, 65370>>, <<65382, 65470>>, <<65474, 65479>>, <<65482, 65487>>, <<65490, 65495>>,
    <<65498, 65500>>, <<65536, 65547>>, <<65549, 65574>>, <<65576, 65594>>, <<65596, 65597>>,
    <<65599, 65613>>, <<65616, 65629>>, <<65664, 65786>>, <<65799, 65843>>, <<65856, 65912>>,
    <<65930, 65931>>, <<66176, 66204>>, <<66208, 66256>>, <<66273, 66299>>, <<66304, 66339>>,
    <<66349, 66378>>, <<66384, 66421>>, <<66432, 66461>>, <<66464, 66499>>, <<66504, 66511>>,
    <<66513, 66517>>, <<66560, 66717>>, <<66720, 66729>>, <<66736, 66771>>, <<66776, 66811>>,
    <<66816, 66855>>, <<66864, 66915>>, <<66928, 66938>>, <<66940, 66954>>, <<66956, 66962>>,
    <<66964, 66965>>, <<66967, 66977>>, <<66979, 66993>>, <<66995, 67001>>, <<67003, 67004>>,
    <<67072, 67382>>, <<67392, 67413>>, <<67424, 67431>>, <<67456, 67461>>, <<67463, 67504>>,
    <<67506, 67514>>, <<67584, 67589>>, <<67592, 67592>>, <<67594, 67637>>, <<67639, 67640>>,
    <<67644, 67644>>, <<67647, 67669>>, <<67672, 67702>>, <<67705, 67742>>, <<67751, 67759>>,
    <<67808, 67826>>, <<67828, 67829>>, <<67835, 67867>>, <<67872, 67897>>, <<67968, 68023>>,
    <<68028, 68047>>, <<68050, 68096>>, <<68112, 68115>>, <<68117, 68119>>, <<68121, 68149>>,
    <<68160, 68168>>, <<68192, 68222>>, <<68224, 68255>>, <<68288, 68295>>, <<68297, 68324>>,
    <<68331, 68335>>, <<68352, 68405>>, <<68416, 68437>>, <<68440, 68466>>, <<68472, 68497>>,
    <<68521, 68527>>, <<68608, 68680>>, <<68736, 68786>>, <<68800, 68850>>, <<68858, 68899>>,
    <<68912, 68921>>, <<69216, 69246>>, <<69248, 69289>>, <<69296, 69297>>, <<69376, 69415>>,
    <<69424, 69445>>, <<69457, 69460>>, <<69488, 69505>>, <<69552, 69579>>, <<69600, 69622>>,
    <<69635, 69687>>, <<69714, 69743>>, <<69745, 69746>>, <<69749, 69749>>, <<69763, 69807>>,
    <<69840, 69864>>, <<69872, 69881>>, <<69891, 69926>>, <<69942, 69951>>, <<69956, 69956>>,
    <<69959, 69959>>, <<69968, 70002>>, <<70006, 70006>>, <<70019, 70066>>, <<70081, 70084>>,
    <<70096, 70106>>, <<70108, 70108>>, <<70113, 70132>>, <<70144, 70161>>, <<70163, 70187>>,
    <<70272, 70278>>, <<70280, 70280>>, <<70282, 70285>>, <<70287, 70301>>, <<70303, 70312>>,
    <<70320, 70366>>, <<70384, 70393>>, <<70405, 70412>>, <<70415, 70416>>, <<70419, 70440>>,
    <<70442, 70448>>, <<70450, 70451>>, <<70453, 70457>>, <<70461, 70461>>, <<70480, 70480>>,
    <<70493, 70497>>, <<70656, 70708>>, <<70727, 70730>>, <<70736, 70745>>, <<70751, 70753>>,
    <<70784, 70831>>, <<70852, 70853>>, <<70855, 70855>>, <<70864, 70873>>, <<71040, 71086>>,
    <<71128, 71131>>, <<71168, 71215>>, <<71236, 71236>>, <<71248, 71257>>, <<71296, 71338>>,
    <<71352, 71352>>, <<71360, 71369>>, <<71424, 71450>>, <<71472, 71483>>, <<71488, 71494>>,
    <<71680, 71723>>, <<71840, 71922>>, <<71935, 71942>>, <<71945, 71945>>, <<71948, 71955>>,
    <<71957, 71958>>, <<71960, 71983>>, <<71999, 71999>>, <<72001, 72001>>, <<72016, 72025>>,
    <<72096, 72103>>, <<72106, 72144>>, <<72161, 72161>>, <<72163, 72163>>, <<72192, 72192>>,
    <<72203, 72242>>, <<72250, 72250>>, <<72272, 72272>>, <<72284, 72329>>, <<72349, 72349>>,
    <<72368, 72440>>, <<72704, 72712>>, <<72714, 72750>>, <<72768, 72768>>, <<72784, 72812>>,
    <<72818, 72847>>, <<72960, 72966>>, <<72968, 72969>>, <<72971, 73008>>, <<73030, 73030>>,
    <<73040, 73049>>, <<73056, 73061>>, <<73063, 73064>>, <<73066, 73097>>, <<73112, 73112>>,
    <<73120, 73129>>, <<73440, 73458>>, <<73648, 73648>>, <<73664, 73684>>, <<73728, 74649>>,
    <<74752, 74862>>, <<74880, 75075>>, <<77712, 77808>>, <<77824, 78894>>, <<82944, 83526>>,
    <<92160, 92728>>, <<92736, 92766>>, <<92768, 92777>>, <<92784, 92862>>, <<92864, 92873>>,
    <<92880, 92909>>, <<92928, 92975>>, <<92992, 92995>>, <<93008, 93017>>, <<93019, 93025>>,
    <<93027, 93047>>, <<93053, 93071>>, <<93760, 93846>>, <<93952, 94026>>, <<94032, 94032>>,
    <<94099, 94111>>, <<94176, 94177>>, <<94179, 94179>>, <<94208, 100343>>,
    <<100352, 101589>>, <<101632, 101640>>, <<110576, 110579>>, <<110581, 110587>>,
    <<110589, 110590>>, <<110592, 110882>>, <<110928, 110930>>, <<110948, 110951>>,
    <<110960, 111355>>, <<113664, 113770>>, <<113776, 113788>>, <<113792, 113800>>,
    <<113808, 113817>>, <<119520, 119539>>, <<119648, 119672>>, <<119808, 119892>>,
    <<119894, 119964>>, <<119966, 119967>>, <<119970, 119970>>, <<119973, 119974>>,
    <<119977, 119980>>, <<119982, 119993>>, <<119995, 119995>>, <<119997, 120003>>,
    <<120005, 120069>>, <<120071, 120074>>, <<120077, 120084>>, <<120086, 120092>>,
    <<120094, 120121>>, <<120123, 120126>>, <<120128, 120132>>, <<120134, 120134>>,
    <<120138, 120144>>, <<120146, 120485>>, <<120488, 120512>>, <<120514, 120538>>,
    <<120540, 120570>>, <<120572, 120596>>, <<120598, 120628>>, <<120630, 120654>>,
    <<120656, 120686>>, <<120688, 120712>>, <<120714, 120744>>, <<120746, 120770>>,
    <<120772, 120779>>, <<120782, 120831>>, <<122624, 122654>>, <<123136, 123180>>,
    <<123191, 123197>>, <<123200, 123209>>, <<123214, 123214>>, <<123536, 123565>>,
    <<123584, 123627>>, <<123632, 123641>>, <<124896, 124902>>, <<124904, 124907>>,
    <<124909, 124910>>, <<124912, 124926>>, <<124928, 125124>>, <<125127, 125135>>,
    <<125184, 125251>>, <<125259, 125259>>, <<125264, 125273>>, <<126065, 126123>>,
    <<126125, 126127>>, <<126129, 126132>>, <<126209, 126253>>, <<126255, 126269>>,
    <<126464, 126467>>, <<126469, 126495>>, <<126497, 126498>>, <<126500, 126500>>,
    <<126503, 126503>>, <<126505, 126514>>, <<126516, 126519>>, <<126521, 126521>>,
    <<126523, 126523>>, <<126530, 126530>>, <<126535, 126535>>, <<126537, 126537>>,
    <<126539, 126539>>, <<126541, 126543>>, <<126545, 126546>>, <<126548, 126548>>,
    <<126551, 126551>>, <<126553, 126553>>, <<126555, 126555>>, <<126557, 126557>>,
    <<126559, 126559>>, <<126561, 126562>>, <<126564, 126564>>, <<126567, 126570>>,
    <<126572, 126578>>, <<126580, 126583>>, <<126585, 126588>>, <<126590, 126590>>,
    <<126592, 126601>>, <<126603, 126619>>, <<126625, 126627>>, <<126629, 126633>>,
    <<126635, 126651>>, <<127232, 127244>>, <<130032, 130041>>, <<131072, 173791>>,
    <<173824, 177976>>, <<177984, 178205>>, <<178208, 183969>>, <<183984, 191456>>,
    <<194560, 195101>>, <<196608, 201546>>
  >>

\* the cased code points (lower case, upper case or title case): <<first, last>>
CasedRanges ==
  <<
    <<65, 90>>, <<97, 122>>, <<170, 170>>, <<181, 181>>, <<186, 186>>, <<192, 214>>,
    <<216, 246>>, <<248, 442>>, <<444, 447>>, <<452, 659>>, <<661, 696>>, <<704, 705>>,
    <<736, 740>>, <<837, 837>>, <<880, 883>>, <<886, 887>>, <<890, 893>>, <<895, 895>>,
    <<902, 902>>, <<904, 906>>, <<908, 908>>, <<910, 929>>, <<931, 1013>>, <<1015, 1153>>,
    <<1162, 1327>>, <<1329, 1366>>, <<1376, 1416>>, <<4256, 4293>>, <<4295, 4295>>,
    <<4301, 4301>>, <<4304, 4346>>, <<4349, 4351>>, <<5024, 5109>>, <<5112, 5117>>,
    <<7296, 7304>>, <<7312, 7354>>, <<7357, 7359>>, <<7424, 7615>>, <<7680, 7957>>,
    <<7960, 7965>>, <<7968, 8005>>, <<8008, 8013>>, <<8016, 8023>>, <<8025, 8025>>,
    <<8027, 8027>>, <<8029, 8029>>, <<8031, 8061>>, <<8064, 8116>>, <<8118, 8124>>,
    <<8126, 8126>>, <<8130, 8132>>, <<8134, 8140>>, <<8144, 8147>>, <<8150, 8155>>,
    <<8160, 8172>>, <<8178, 8180>>, <<8182, 8188>>, <<8305, 8305>>, <<8319, 8319>>,
    <<8336, 8348>>, <<8450, 8450>>, <<8455, 8455>>, <<8458, 8467>>, <<8469, 8469>>,
    <<8473, 8477>>, <<8484, 8484>>, <<8486, 8486>>, <<8488, 8488>>, <<8490, 8493>>,
    <<8495, 8500>>, <<8505, 8505>>, <<8508, 8511>>, <<8517, 8521>>, <<8526, 8526>>,
    <<8544, 8575>>, <<8579, 8580>>, <<9398, 9449>>, <<11264, 11492>>, <<11499, 11502>>,
    <<11506, 11507>>, <<11520, 11557>>, <<11559, 11559>>, <<11565, 11565>>, <<42560, 42605>>,
    <<42624, 42653>>, <<42786, 42887>>, <<42891, 42894>>, <<42896, 42954>>, <<42960, 42961>>,
    <<42963, 42963>>, <<42965, 42969>>, <<42997, 42998>>, <<43000, 43002>>, <<43824, 43866>>,
    <<43868, 43880>>, <<43888, 43967>>, <<64256, 64262>>, <<64275, 64279>>, <<65313, 65338>>,
    <<65345, 65370>>, <<66560, 66639>>, <<66736, 66771>>, <<66776, 66811>>, <<66928, 66938>>,
    <<66940, 66954>>, <<66956, 66962>>, <<66964, 66965>>, <<66967, 66977>>, <<66979, 66993>>,
    <<66995, 67001>>, <<67003, 67004>>, <<67456, 67456>>, <<67459, 67461>>, <<67463, 67504>>,
    <<67506, 67514>>, <<68736, 68786>>, <<68800, 68850>>, <<71840, 71903>>, <<93760, 93823>>,
    <<119808, 119892>>, <<119894, 119964>>, <<119966, 119967>>, <<119970, 119970>>,
    <<119973, 119974>>, <<119977, 119980>>, <<119982, 119993>>, <<119995, 119995>>,
    <<119997, 120003>>, <<120005, 120069>>, <<120071, 120074>>, <<120077, 120084>>,
    <<120086, 120092>>, <<120094, 120121>>, <<120123, 120126>>, <<120128, 120132>>,
    <<120134, 120134>>, <<120138, 120144>>, <<120146, 120485>>, <<120488, 120512>>,
    <<120514, 120538>>, <<120540, 120570>>, <<120572, 120596>>, <<120598, 120628>>,
    <<120630, 120654>>, <<120656, 120686>>, <<120688, 120712>>, <<120714, 120744>>,
    <<120746, 120770>>, <<120772, 120779>>, <<122624, 122633>>, <<122635, 122654>>,
    <<125184, 125251>>, <<127280, 127305>>, <<127312, 127337>>, <<127344, 127369>>
  >>

\* the case-ignorable code points (marks, modifiers, format characters, some
\* punctuation such as the full stop and the apostrophe): <<first, last>>
CaseIgnorableRanges ==
  <<
    <<39, 39>>, <<46, 46>>, <<58, 58>>, <<94, 94>>, <<96, 96>>, <<168, 168>>, <<173, 173>>,
    <<175, 175>>, <<180, 180>>, <<183, 184>>, <<688, 879>>, <<884, 885>>, <<890, 890>>,
    <<900, 901>>, <<903, 903>>, <<1155, 1161>>, <<1369, 1369>>, <<1375, 1375>>, <<1425, 1469>>,
    <<1471, 1471>>, <<1473, 1474>>, <<1476, 1477>>, <<1479, 1479>>, <<1524, 1524>>,
    <<1536, 1541>>, <<1552, 1562>>, <<1564, 1564>>, <<1600, 1600>>, <<1611, 1631>>,
    <<1648, 1648>>, <<1750, 1757>>, <<1759, 1768>>, <<1770, 1773>>, <<1807, 1807>>,
    <<1809, 1809>>, <<1840, 1866>>, <<1958, 1968>>, <<2027, 2037>>, <<2042, 2042>>,
    <<2045, 2045>>, <<2070, 2093>>, <<2137, 2139>>, <<2184, 2184>>, <<2192, 2193>>,
    <<2200, 2207>>, <<2249, 2306>>, <<2362, 2362>>, <<2364, 2364>>, <<2369, 2376>>,
    <<2381, 2381>>, <<2385, 2391>>, <<2402, 2403>>, <<2417, 2417>>, <<2433, 2433>>,
    <<2492, 2492>>, <<2497, 2500>>, <<2509, 2509>>, <<2530, 2531>>, <<2558, 2558>>,
    <<2561, 2562>>, <<2620, 2620>>, <<2625, 2626>>, <<2631, 2632>>, <<2635, 2637>>,
    <<2641, 2641>>, <<2672, 2673>>, <<2677, 2677>>, <<2689, 2690>>, <<2748, 2748>>,
    <<2753, 2757>>, <<2759, 2760>>, <<2765, 2765>>, <<2786, 2787>>, <<2810, 2815>>,
    <<2817, 2817>>, <<2876, 2876>>, <<2879, 2879>>, <<2881, 2884>>, <<2893, 2893>>,
    <<2901, 2902>>, <<2914, 2915>>, <<2946, 2946>>, <<3008, 3008>>, <<3021, 3021>>,
    <<3072, 3072>>, <<3076, 3076>>, <<3132, 3132>>, <<3134, 3136>>, <<3142, 3144>>,
    <<3146, 3149>>, <<3157, 3158>>, <<3170, 3171>>, <<3201, 3201>>, <<3260, 3260>>,
    <<3263, 3263>>, <<3270, 3270>>, <<3276, 3277>>, <<3298, 3299>>, <<3328, 3329>>,
    <<3387, 3388>>, <<3393, 3396>>, <<3405, 3405>>, <<3426, 3427>>, <<3457, 3457>>,
    <<3530, 3530>>, <<3538, 3540>>, <<3542, 3542>>, <<3633, 3633>>, <<3636, 3642>>,
    <<3654, 3662>>, <<3761, 3761>>, <<3764, 3772>>, <<3782, 3782>>, <<3784, 3789>>,
    <<3864, 3865>>, <<3893, 3893>>, <<3895, 3895>>, <<3897, 3897>>, <<3953, 3966>>,
    <<3968, 3972>>, <<3974, 3975>>, <<3981, 3991>>, <<3993, 4028>>, <<4038, 4038>>,
    <<4141, 4144>>, <<4146, 4151>>, <<4153, 4154>>, <<4157, 4158>>, <<4184, 4185>>,
    <<4190, 4192>>, <<4209, 4212>>, <<4226, 4226>>, <<4229, 4230>>, <<4237, 4237>>,
    <<4253, 4253>>, <<4348, 4348>>, <<4957, 4959>>, <<5906, 5908>>, <<5938, 5939>>,
    <<5970, 5971>>, <<6002, 6003>>, <<6068, 6069>>, <<6071, 6077>>, <<6086, 6086>>,
    <<6089, 6099>>, <<6103, 6103>>, <<6109, 6109>>, <<6155, 6159>>, <<6211, 6211>>,
    <<6277, 6278>>, <<6313, 6313>>, <<6432, 6434>>, <<6439, 6440>>, <<6450, 6450>>,
    <<6457, 6459>>, <<6679, 6680>>, <<6683, 6683>>, <<6742, 6742>>, <<6744, 6750>>,
    <<6752, 6752>>, <<6754, 6754>>, <<6757, 6764>>, <<6771, 6780>>, <<6783, 6783>>,
    <<6823, 6823>>, <<6832, 6862>>, <<6912, 6915>>, <<6964, 6964>>, <<6966, 6970>>,
    <<6972, 6972>>, <<6978, 6978>>, <<7019, 7027>>, <<7040, 7041>>, <<7074, 7077>>,
    <<7080, 7081>>, <<7083, 7085>>, <<7142, 7142>>, <<7144, 7145>>, <<7149, 7149>>,
    <<7151, 7153>>, <<7212, 7219>>, <<7222, 7223>>, <<7288, 7293>>, <<7376, 7378>>,
    <<7380, 7392>>, <<7394, 7400>>, <<7405, 7405>>, <<7412, 7412>>, <<7416, 7417>>,
    <<7468, 7530>>, <<7544, 7544>>, <<7579, 7679>>, <<8125, 8125>>, <<8127, 8129>>,
    <<8141, 8143>>, <<8157, 8159>>, <<8173, 8175>>, <<8189, 8190>>, <<8203, 8207>>,
    <<8216, 8217>>, <<8228, 8228>>, <<8231, 8231>>, <<8234, 8238>>, <<8288, 8292>>,
    <<8294, 8303>>, <<8305, 8305>>, <<8319, 8319>>, <<8336, 8348>>, <<8400, 8432>>,
    <<11388, 11389>>, <<11503, 11505>>, <<11631, 11631>>, <<11647, 11647>>, <<11744, 11775>>,
    <<11823, 11823>>, <<12293, 12293>>, <<12330, 12333>>, <<12337, 12341>>, <<12347, 12347>>,
    <<12441, 12446>>, <<12540, 12542>>, <<40981, 40981>>, <<42232, 42237>>, <<42508, 42508>>,
    <<42607, 42610>>, <<42612, 42621>>, <<42623, 42623>>, <<42652, 42655>>, <<42736, 42737>>,
    <<42752, 42785>>, <<42864, 42864>>, <<42888, 42890>>, <<42994, 42996>>, <<43000, 43001>>,
    <<43010, 43010>>, <<43014, 43014>>, <<43019, 43019>>, <<43045, 43046>>, <<43052, 43052>>,
    <<43204, 43205>>, <<43232, 43249>>, <<43263, 43263>>, <<43302, 43309>>, <<43335, 43345>>,
    <<43392, 43394>>, <<43443, 43443>>, <<43446, 43449>>, <<43452, 43453>>, <<43471, 43471>>,
    <<43493, 43494>>, <<43561, 43566>>, <<43569, 43570>>, <<43573, 43574>>, <<43587, 43587>>,
    <<43596, 43596>>, <<43632, 43632>>, <<43644, 43644>>, <<43696, 43696>>, <<43698, 43700>>,
    <<43703, 43704>>, <<43710, 43711>>, <<43713, 43713>>, <<43741, 43741>>, <<43756, 43757>>,
    <<43763, 43764>>, <<43766, 43766>>, <<43867, 43871>>, <<43881, 43883>>, <<44005, 44005>>,
    <<44008, 44008>>, <<44013, 44013>>, <<64286, 64286>>, <<64434, 64450>>, <<65024, 65039>>,
    <<65043, 65043>>, <<65056, 65071>>, <<65106, 65106>>, <<65109, 65109>>, <<65279, 65279>>,
    <<65287, 65287>>, <<65294, 65294>>, <<65306, 65306>>, <<65342, 65342>>, <<65344, 65344>>,
    <<65392, 65392>>, <<65438, 65439>>, <<65507, 65507>>, <<65529, 65531>>, <<66045, 66045>>,
    <<66272, 66272>>, <<66422, 66426>>, <<67456, 67461>>, <<67463, 67504>>, <<67506, 67514>>,
    <<68097, 68099>>, <<68101, 68102>>, <<68108, 68111>>, <<68152, 68154>>, <<68159, 68159>>,
    <<68325, 68326>>, <<68900, 68903>>, <<69291, 69292>>, <<69446, 69456>>, <<69506, 69509>>,
    <<69633, 69633>>, <<69688, 69702>>, <<69744, 69744>>, <<69747, 69748>>, <<69759, 69761>>,
    <<69811, 69814>>, <<69817, 69818>>, <<69821, 69821>>, <<69826, 69826>>, <<69837, 69837>>,
    <<69888, 69890>>, <<69927, 69931>>, <<69933, 69940>>, <<70003, 70003>>, <<70016, 70017>>,
    <<70070, 70078>>, <<70089, 70092>>, <<70095, 70095>>, <<70191, 70193>>, <<70196, 70196>>,
    <<70198, 70199>>, <<70206, 70206>>, <<70367, 70367>>, <<70371, 70378>>, <<70400, 70401>>,
    <<70459, 70460>>, <<70464, 70464>>, <<70502, 70508>>, <<70512, 70516>>, <<70712, 70719>>,
    <<70722, 70724>>, <<70726, 70726>>, <<70750, 70750>>, <<70835, 70840>>, <<70842, 70842>>,
    <<70847, 70848>>, <<70850, 70851>>, <<71090, 71093>>, <<71100, 71101>>, <<71103, 71104>>,
    <<71132, 71133>>, <<71219, 71226>>, <<71229, 71229>>, <<71231, 71232>>, <<71339, 71339>>,
    <<71341, 71341>>, <<71344, 71349>>, <<71351, 71351>>, <<71453, 71455>>, <<71458, 71461>>,
    <<71463, 71467>>, <<71727, 71735>>, <<71737, 71738>>, <<71995, 71996>>, <<71998, 71998>>,
    <<72003, 72003>>, <<72148, 72151>>, <<72154, 72155>>, <<72160, 72160>>, <<72193, 72202>>,
    <<72243, 72248>>, <<72251, 72254>>, <<72263, 72263>>, <<72273, 72278>>, <<72281, 72283>>,
    <<72330, 72342>>, <<72344, 72345>>, <<72752, 72758>>, <<72760, 72765>>, <<72767, 72767>>,
    <<72850, 72871>>, <<72874, 72880>>, <<72882, 72883>>, <<72885, 72886>>, <<73009, 73014>>,
    <<73018, 73018>>, <<73020, 73021>>, <<73023, 73029>>, <<73031, 73031>>, <<73104, 73105>>,
    <<73109, 73109>>, <<73111, 73111>>, <<73459, 73460>>, <<78896, 78904>>, <<92912, 92916>>,
    <<92976, 92982>>, <<92992, 92995>>, <<94031, 94031>>, <<94095, 94111>>, <<94176, 94177>>,
    <<94179, 94180>>, <<110576, 110579>>, <<110581, 110587>>, <<110589, 110590>>,
    <<113821, 113822>>, <<113824, 113827>>, <<118528, 118573>>, <<118576, 118598>>,
    <<119143, 119145>>, <<119155, 119170>>, <<119173, 119179>>, <<119210, 119213>>,
    <<119362, 119364>>, <<121344, 121398>>, <<121403, 121452>>, <<121461, 121461>>,
    <<121476, 121476>>, <<121499, 121503>>, <<121505, 121519>>, <<122880, 122886>>,
    <<122888, 122904>>, <<122907, 122913>>, <<122915, 122916>>, <<122918, 122922>>,
    <<123184, 123197>>, <<123566, 123566>>, <<123628, 123631>>, <<125136, 125142>>,
    <<125252, 125259>>, <<127995, 127999>>, <<917505, 917505>>, <<917536, 917631>>,
    <<917760, 917999>>
  >>

\* the one-character upper case mappings: <<first, last, step, delta>>, every
\* step-th code point c of first..last has the upper case c + delta
ToUpperRanges ==
  <<
    <<97, 122, 1, -32>>, <<181, 181, 1, 743>>, <<224, 246, 1, -32>>, <<248, 254, 1, -32>>,
    <<255, 255, 1, 121>>, <<257, 303, 2, -1>>, <<305, 305, 1, -232>>, <<307, 311, 2, -1>>,
    <<314, 328, 2, -1>>, <<331, 375, 2, -1>>, <<378, 382, 2, -1>>, <<383, 383, 1, -300>>,
    <<384, 384, 1, 195>>, <<387, 389, 2, -1>>, <<392, 392, 1, -1>>, <<396, 396, 1, -1>>,
    <<402, 402, 1, -1>>, <<405, 405, 1, 97>>, <<409, 409, 1, -1>>, <<410, 410, 1, 163>>,
    <<414, 414, 1, 130>>, <<417, 421, 2, -1>>, <<424, 424, 1, -1>>, <<429, 429, 1, -1>>,
    <<432, 432, 1, -1>>, <<436, 438, 2, -1>>, <<441, 441, 1, -1>>, <<445, 445, 1, -1>>,
    <<447, 447, 1, 56>>, <<453, 453, 1, -1>>, <<454, 454, 1, -2>>, <<456, 456, 1, -1>>,
    <<457, 457, 1, -2>>, <<459, 459, 1, -1>>, <<460, 460, 1, -2>>, <<462, 476, 2, -1>>,
    <<477, 477, 1, -79>>, <<479, 495, 2, -1>>, <<498, 498, 1, -1>>, <<499, 499, 1, -2>>,
    <<501, 501, 1, -1>>, <<505, 543, 2, -1>>, <<547, 563, 2, -1>>, <<572, 572, 1, -1>>,
    <<575, 576, 1, 10815>>, <<578, 578, 1, -1>>, <<583, 591, 2, -1>>, <<592, 592, 1, 10783>>,
    <<593, 593, 1, 10780>>, <<594, 594, 1, 10782>>, <<595, 595, 1, -210>>,
    <<596, 596, 1, -206>>, <<598, 599, 1, -205>>, <<601, 601, 1, -202>>, <<603, 603, 1, -203>>,
    <<604, 604, 1, 42319>>, <<608, 608, 1, -205>>, <<609, 609, 1, 42315>>,
    <<611, 611, 1, -207>>, <<613, 613, 1, 42280>>, <<614, 614, 1, 42308>>,
    <<616, 616, 1, -209>>, <<617, 617, 1, -211>>, <<618, 618, 1, 42308>>,
    <<619, 619, 1, 10743>>, <<620, 620, 1, 42305>>, <<623, 623, 1, -211>>,
    <<625, 625, 1, 10749>>, <<626, 626, 1, -213>>, <<629, 629, 1, -214>>,
    <<637, 637, 1, 10727>>, <<640, 640, 1, -218>>, <<642, 642, 1, 42307>>,
    <<643, 643, 1, -218>>, <<647, 647, 1, 42282>>, <<648, 648, 1, -218>>, <<649, 649, 1, -69>>,
    <<650, 651, 1, -217>>, <<652, 652, 1, -71>>, <<658, 658, 1, -219>>, <<669, 669, 1, 42261>>,
    <<670, 670, 1, 42258>>, <<837, 837, 1, 84>>, <<881, 883, 2, -1>>, <<887, 887, 1, -1>>,
    <<891, 893, 1, 130>>, <<940, 940, 1, -38>>, <<941, 943, 1, -37>>, <<945, 961, 1, -32>>,
    <<962, 962, 1, -31>>, <<963, 971, 1, -32>>, <<972, 972, 1, -64>>, <<973, 974, 1, -63>>,
    <<976, 976, 1, -62>>, <<977, 977, 1, -57>>, <<981, 981, 1, -47>>, <<982, 982, 1, -54>>,
    <<983, 983, 1, -8>>, <<985, 1007, 2, -1>>, <<1008, 1008, 1, -86>>, <<1009, 1009, 1, -80>>,
    <<1010, 1010, 1, 7>>, <<1011, 1011, 1, -116>>, <<1013, 1013, 1, -96>>,
    <<1016, 1016, 1, -1>>, <<1019, 1019, 1, -1>>, <<1072, 1103, 1, -32>>,
    <<1104, 1119, 1, -80>>, <<1121, 1153, 2, -1>>, <<1163, 1215, 2, -1>>,
    <<1218, 1230, 2, -1>>, <<1231, 1231, 1, -15>>, <<1233, 1327, 2, -1>>,
    <<1377, 1414, 1, -48>>, <<4304, 4346, 1, 3008>>, <<4349, 4351, 1, 3008>>,
    <<5112, 5117, 1, -8>>, <<7296, 7296, 1, -6254>>, <<7297, 7297, 1, -6253>>,
    <<7298, 7298, 1, -6244>>, <<7299, 7300, 1, -6242>>, <<7301, 7301, 1, -6243>>,
    <<7302, 7302, 1, -6236>>, <<7303, 7303, 1, -6181>>, <<7304, 7304, 1, 35266>>,
    <<7545, 7545, 1, 35332>>, <<7549, 7549, 1, 3814>>, <<7566, 7566, 1, 35384>>,
    <<7681, 7829, 2, -1>>, <<7835, 7835, 1, -59>>, <<7841, 7935, 2, -1>>, <<7936, 7943, 1, 8>>,
    <<7952, 7957, 1, 8>>, <<7968, 7975, 1, 8>>, <<7984, 7991, 1, 8>>, <<8000, 8005, 1, 8>>,
    <<8017, 8023, 2, 8>>, <<8032, 8039, 1, 8>>, <<8048, 8049, 1, 74>>, <<8050, 8053, 1, 86>>,
    <<8054, 8055, 1, 100>>, <<8056, 8057, 1, 128>>, <<8058, 8059, 1, 112>>,
    <<8060, 8061, 1, 126>>, <<8112, 8113, 1, 8>>, <<8126, 8126, 1, -7205>>,
    <<8144, 8145, 1, 8>>, <<8160, 8161, 1, 8>>, <<8165, 8165, 1, 7>>, <<8526, 8526, 1, -28>>,
    <<8560, 8575, 1, -16>>, <<8580, 8580, 1, -1>>, <<9424, 9449, 1, -26>>,
    <<11312, 11359, 1, -48>>, <<11361, 11361, 1, -1>>, <<11365, 11365, 1, -10795>>,
    <<11366, 11366, 1, -10792>>, <<11368, 11372, 2, -1>>, <<11379, 11379, 1, -1>>,
    <<11382, 11382, 1, -1>>, <<11393, 11491, 2, -1>>, <<11500, 11502, 2, -1>>,
    <<11507, 11507, 1, -1>>, <<11520, 11557, 1, -7264>>, <<11559, 11559, 1, -7264>>,
    <<11565, 11565, 1, -7264>>, <<42561, 42605, 2, -1>>, <<42625, 42651, 2, -1>>,
    <<42787, 42799, 2, -1>>, <<42803, 42863, 2, -1>>, <<42874, 42876, 2, -1>>,
    <<42879, 42887, 2, -1>>, <<42892, 42892, 1, -1>>, <<42897, 42899, 2, -1>>,
    <<42900, 42900, 1, 48>>, <<42903, 42921, 2, -1>>, <<42933, 42947, 2, -1>>,
    <<42952, 42954, 2, -1>>, <<42961, 42961, 1, -1>>, <<42967, 42969, 2, -1>>,
    <<42998, 42998, 1, -1>>, <<43859, 43859, 1, -928>>, <<43888, 43967, 1, -38864>>,
    <<65345, 65370, 1, -32>>, <<66600, 66639, 1, -40>>, <<66776, 66811, 1, -40>>,
    <<66967, 66977, 1, -39>>, <<66979, 66993, 1, -39>>, <<66995, 67001, 1, -39>>,
    <<67003, 67004, 1, -39>>, <<68800, 68850, 1, -64>>, <<71872, 71903, 1, -32>>,
    <<93792, 93823, 1, -32>>, <<125218, 125251, 1, -34>>
  >>

\* the upper case mappings to several characters: <<c, c, upper case of c>>
ToUpperSpecial ==
  <<
    <<223, 223, <<83, 83>>>>, <<329, 329, <<700, 78>>>>, <<496, 496, <<74, 780>>>>,
    <<912, 912, <<921, 776, 769>>>>, <<944, 944, <<933, 776, 769>>>>,
    <<1415, 1415, <<1333, 1362>>>>, <<7830, 7830, <<72, 817>>>>, <<7831, 7831, <<84, 776>>>>,
    <<7832, 7832, <<87, 778>>>>, <<7833, 7833, <<89, 778>>>>, <<7834, 7834, <<65, 702>>>>,
    <<8016, 8016, <<933, 787>>>>, <<8018, 8018, <<933, 787, 768>>>>,
    <<8020, 8020, <<933, 787, 769>>>>, <<8022, 8022, <<933, 787, 834>>>>,
    <<8064, 8064, <<7944, 921>>>>, <<8065, 8065, <<7945, 921>>>>,
    <<8066, 8066, <<7946, 921>>>>, <<8067, 8067, <<7947, 921>>>>,
    <<8068, 8068, <<7948, 921>>>>, <<8069, 8069, <<7949, 921>>>>,
    <<8070, 8070, <<7950, 921>>>>, <<8071, 8071, <<7951, 921>>>>,
    <<8072, 8072, <<7944, 921>>>>, <<8073, 8073, <<7945, 921>>>>,
    <<8074, 8074, <<7946, 921>>>>, <<8075, 8075, <<7947, 921>>>>,
    <<8076, 8076, <<7948, 921>>>>, <<8077, 8077, <<7949, 921>>>>,
    <<8078, 8078, <<7950, 921>>>>, <<8079, 8079, <<7951, 921>>>>,
    <<8080, 8080, <<7976, 921>>>>, <<8081, 8081, <<7977, 921>>>>,
    <<8082, 8082, <<7978, 921>>>>, <<8083, 8083, <<7979, 921>>>>,
    <<8084, 8084, <<7980, 921>>>>, <<8085, 8085, <<7981, 921>>>>,
    <<8086, 8086, <<7982, 921>>>>, <<8087, 8087, <<7983, 921>>>>,
    <<8088, 8088, <<7976, 921>>>>, <<8089, 8089, <<7977, 921>>>>,
    <<8090, 8090, <<7978, 921>>>>, <<8091, 8091, <<7979, 921>>>>,
    <<8092, 8092, <<7980, 921>>>>, <<8093, 8093, <<7981, 921>>>>,
    <<8094, 8094, <<7982, 921>>>>, <<8095, 8095, <<7983, 921>>>>,
    <<8096, 8096, <<8040, 921>>>>, <<8097, 8097, <<8041, 921>>>>,
    <<8098, 8098, <<8042, 921>>>>, <<8099, 8099, <<8043, 921>>>>,
    <<8100, 8100, <<8044, 921>>>>, <<8101, 8101, <<8045, 921>>>>,
    <<8102, 8102, <<8046, 921>>>>, <<8103, 8103, <<8047, 921>>>>,
    <<8104, 8104, <<8040, 921>>>>, <<8105, 8105, <<8041, 921>>>>,
    <<8106, 8106, <<8042, 921>>>>, <<8107, 8107, <<8043, 921>>>>,
    <<8108, 8108, <<8044, 921>>>>, <<8109, 8109, <<8045, 921>>>>,
    <<8110, 8110, <<8046, 921>>>>, <<8111, 8111, <<8047, 921>>>>,
    <<8114, 8114, <<8122, 921>>>>, <<8115, 8115, <<913, 921>>>>, <<8116, 8116, <<902, 921>>>>,
    <<8118, 8118, <<913, 834>>>>, <<8119, 8119, <<913, 834, 921>>>>,
    <<8124, 8124, <<913, 921>>>>, <<8130, 8130, <<8138, 921>>>>, <<8131, 8131, <<919, 921>>>>,
    <<8132, 8132, <<905, 921>>>>, <<8134, 8134, <<919, 834>>>>,
    <<8135, 8135, <<919, 834, 921>>>>, <<8140, 8140, <<919, 921>>>>,
    <<8146, 8146, <<921, 776, 768>>>>, <<8147, 8147, <<921, 776, 769>>>>,
    <<8150, 8150, <<921, 834>>>>, <<8151, 8151, <<921, 776, 834>>>>,
    <<8162, 8162, <<933, 776, 768>>>>, <<8163, 8163, <<933, 776, 769>>>>,
    <<8164, 8164, <<929, 787>>>>, <<8166, 8166, <<933, 834>>>>,
    <<8167, 8167, <<933, 776, 834>>>>, <<8178, 8178, <<8186, 921>>>>,
    <<8179, 8179, <<937, 921>>>>, <<8180, 8180, <<911, 921>>>>, <<8182, 8182, <<937, 834>>>>,
    <<8183, 8183, <<937, 834, 921>>>>, <<8188, 8188, <<937, 921>>>>,
    <<64256, 64256, <<70, 70>>>>, <<64257, 64257, <<70, 73>>>>, <<64258, 64258, <<70, 76>>>>,
    <<64259, 64259, <<70, 70, 73>>>>, <<64260, 64260, <<70, 70, 76>>>>,
    <<64261, 64261, <<83, 84>>>>, <<64262, 64262, <<83, 84>>>>,
    <<64275, 64275, <<1348, 1350>>>>, <<64276, 64276, <<1348, 1333>>>>,
    <<64277, 64277, <<1348, 1339>>>>, <<64278, 64278, <<1358, 1350>>>>,
    <<64279, 64279, <<1348, 1341>>>>
  >>

\* the one-character lower case mappings: <<first, last, step, delta>>
ToLowerRanges ==
  <<
    <<65, 90, 1, 32>>, <<192, 214, 1, 32>>, <<216, 222, 1, 32>>, <<256, 302, 2, 1>>,
    <<306, 310, 2, 1>>, <<313, 327, 2, 1>>, <<330, 374, 2, 1>>, <<376, 376, 1, -121>>,
    <<377, 381, 2, 1>>, <<385, 385, 1, 210>>, <<386, 388, 2, 1>>, <<390, 390, 1, 206>>,
    <<391, 391, 1, 1>>, <<393, 394, 1, 205>>, <<395, 395, 1, 1>>, <<398, 398, 1, 79>>,
    <<399, 399, 1, 202>>, <<400, 400, 1, 203>>, <<401, 401, 1, 1>>, <<403, 403, 1, 205>>,
    <<404, 404, 1, 207>>, <<406, 406, 1, 211>>, <<407, 407, 1, 209>>, <<408, 408, 1, 1>>,
    <<412, 412, 1, 211>>, <<413, 413, 1, 213>>, <<415, 415, 1, 214>>, <<416, 420, 2, 1>>,
    <<422, 422, 1, 218>>, <<423, 423, 1, 1>>, <<425, 425, 1, 218>>, <<428, 428, 1, 1>>,
    <<430, 430, 1, 218>>, <<431, 431, 1, 1>>, <<433, 434, 1, 217>>, <<435, 437, 2, 1>>,
    <<439, 439, 1, 219>>, <<440, 440, 1, 1>>, <<444, 444, 1, 1>>, <<452, 452, 1, 2>>,
    <<453, 453, 1, 1>>, <<455, 455, 1, 2>>, <<456, 456, 1, 1>>, <<458, 458, 1, 2>>,
    <<459, 475, 2, 1>>, <<478, 494, 2, 1>>, <<497, 497, 1, 2>>, <<498, 500, 2, 1>>,
    <<502, 502, 1, -97>>, <<503, 503, 1, -56>>, <<504, 542, 2, 1>>, <<544, 544, 1, -130>>,
    <<546, 562, 2, 1>>, <<570, 570, 1, 10795>>, <<571, 571, 1, 1>>, <<573, 573, 1, -163>>,
    <<574, 574, 1, 10792>>, <<577, 577, 1, 1>>, <<579, 579, 1, -195>>, <<580, 580, 1, 69>>,
    <<581, 581, 1, 71>>, <<582, 590, 2, 1>>, <<880, 882, 2, 1>>, <<886, 886, 1, 1>>,
    <<895, 895, 1, 116>>, <<902, 902, 1, 38>>, <<904, 906, 1, 37>>, <<908, 908, 1, 64>>,
    <<910, 911, 1, 63>>, <<913, 929, 1, 32>>, <<931, 939, 1, 32>>, <<975, 975, 1, 8>>,
    <<984, 1006, 2, 1>>, <<1012, 1012, 1, -60>>, <<1015, 1015, 1, 1>>, <<1017, 1017, 1, -7>>,
    <<1018, 1018, 1, 1>>, <<1021, 1023, 1, -130>>, <<1024, 1039, 1, 80>>,
    <<1040, 1071, 1, 32>>, <<1120, 1152, 2, 1>>, <<1162, 1214, 2, 1>>, <<1216, 1216, 1, 15>>,
    <<1217, 1229, 2, 1>>, <<1232, 1326, 2, 1>>, <<1329, 1366, 1, 48>>, <<4256, 4293, 1, 7264>>,
    <<4295, 4295, 1, 7264>>, <<4301, 4301, 1, 7264>>, <<5024, 5103, 1, 38864>>,
    <<5104, 5109, 1, 8>>, <<7312, 7354, 1, -3008>>, <<7357, 7359, 1, -3008>>,
    <<7680, 7828, 2, 1>>, <<7838, 7838, 1, -7615>>, <<7840, 7934, 2, 1>>,
    <<7944, 7951, 1, -8>>, <<7960, 7965, 1, -8>>, <<7976, 7983, 1, -8>>, <<7992, 7999, 1, -8>>,
    <<8008, 8013, 1, -8>>, <<8025, 8031, 2, -8>>, <<8040, 8047, 1, -8>>, <<8072, 8079, 1, -8>>,
    <<8088, 8095, 1, -8>>, <<8104, 8111, 1, -8>>, <<8120, 8121, 1, -8>>,
    <<8122, 8123, 1, -74>>, <<8124, 8124, 1, -9>>, <<8136, 8139, 1, -86>>,
    <<8140, 8140, 1, -9>>, <<8152, 8153, 1, -8>>, <<8154, 8155, 1, -100>>,
    <<8168, 8169, 1, -8>>, <<8170, 8171, 1, -112>>, <<8172, 8172, 1, -7>>,
    <<8184, 8185, 1, -128>>, <<8186, 8187, 1, -126>>, <<8188, 8188, 1, -9>>,
    <<8486, 8486, 1, -7517>>, <<8490, 8490, 1, -8383>>, <<8491, 8491, 1, -8262>>,
    <<8498, 8498, 1, 28>>, <<8544, 8559, 1, 16>>, <<8579, 8579, 1, 1>>, <<9398, 9423, 1, 26>>,
    <<11264, 11311, 1, 48>>, <<11360, 11360, 1, 1>>, <<11362, 11362, 1, -10743>>,
    <<11363, 11363, 1, -3814>>, <<11364, 11364, 1, -10727>>, <<11367, 11371, 2, 1>>,
    <<11373, 11373, 1, -10780>>, <<11374, 11374, 1, -10749>>, <<11375, 11375, 1, -10783>>,
    <<11376, 11376, 1, -10782>>, <<11378, 11378, 1, 1>>, <<11381, 11381, 1, 1>>,
    <<11390, 11391, 1, -10815>>, <<11392, 11490, 2, 1>>, <<11499, 11501, 2, 1>>,
    <<11506, 11506, 1, 1>>, <<42560, 42604, 2, 1>>, <<42624, 42650, 2, 1>>,
    <<42786, 42798, 2, 1>>, <<42802, 42862, 2, 1>>, <<42873, 42875, 2, 1>>,
    <<42877, 42877, 1, -35332>>, <<42878, 42886, 2, 1>>, <<42891, 42891, 1, 1>>,
    <<42893, 42893, 1, -42280>>, <<42896, 42898, 2, 1>>, <<42902, 42920, 2, 1>>,
    <<42922, 42922, 1, -42308>>, <<42923, 42923, 1, -42319>>, <<42924, 42924, 1, -42315>>,
    <<42925, 42925, 1, -42305>>, <<42926, 42926, 1, -42308>>, <<42928, 42928, 1, -42258>>,
    <<42929, 42929, 1, -42282>>, <<42930, 42930, 1, -42261>>, <<42931, 42931, 1, 928>>,
    <<42932, 42946, 2, 1>>, <<42948, 42948, 1, -48>>, <<42949, 42949, 1, -42307>>,
    <<42950, 42950, 1, -35384>>, <<42951, 42953, 2, 1>>, <<42960, 42960, 1, 1>>,
    <<42966, 42968, 2, 1>>, <<42997, 42997, 1, 1>>, <<65313, 65338, 1, 32>>,
    <<66560, 66599, 1, 40>>, <<66736, 66771, 1, 40>>, <<66928, 66938, 1, 39>>,
    <<66940, 66954, 1, 39>>, <<66956, 66962, 1, 39>>, <<66964, 66965, 1, 39>>,
    <<68736, 68786, 1, 64>>, <<71840, 71871, 1, 32>>, <<93760, 93791, 1, 32>>,
    <<125184, 125217, 1, 34>>
  >>

\* the lower case mappings to several characters: <<c, c, lower case of c>>
ToLowerSpecial ==
  <<
    <<304, 304, <<105, 775>>>>
  >>

\* the characters whose title case is not their upper case: <<c, c, title case of c>>
ToTitleExceptions ==
  <<
    <<223, 223, <<83, 115>>>>, <<452, 452, <<453>>>>, <<453, 453, <<453>>>>,
    <<454, 454, <<453>>>>, <<455, 455, <<456>>>>, <<456, 456, <<456>>>>, <<457, 457, <<456>>>>,
    <<458, 458, <<459>>>>, <<459, 459, <<459>>>>, <<460, 460, <<459>>>>, <<497, 497, <<498>>>>,
    <<498, 498, <<498>>>>, <<499, 499, <<498>>>>, <<1415, 1415, <<1333, 1410>>>>,
    <<4304, 4304, <<4304>>>>, <<4305, 4305, <<4305>>>>, <<4306, 4306, <<4306>>>>,
    <<4307, 4307, <<4307>>>>, <<4308, 4308, <<4308>>>>, <<4309, 4309, <<4309>>>>,
    <<4310, 4310, <<4310>>>>, <<4311, 4311, <<4311>>>>, <<4312, 4312, <<4312>>>>,
    <<4313, 4313, <<4313>>>>, <<4314, 4314, <<4314>>>>, <<4315, 4315, <<4315>>>>,
    <<4316, 4316, <<4316>>>>, <<4317, 4317, <<4317>>>>, <<4318, 4318, <<4318>>>>,
    <<4319, 4319, <<4319>>>>, <<4320, 4320, <<4320>>>>, <<4321, 4321, <<4321>>>>,
    <<4322, 4322, <<4322>>>>, <<4323, 4323, <<4323>>>>, <<4324, 4324, <<4324>>>>,
    <<4325, 4325, <<4325>>>>, <<4326, 4326, <<4326>>>>, <<4327, 4327, <<4327>>>>,
    <<4328, 4328, <<4328>>>>, <<4329, 4329, <<4329>>>>, <<4330, 4330, <<4330>>>>,
    <<4331, 4331, <<4331>>>>, <<4332, 4332, <<4332>>>>, <<4333, 4333, <<4333>>>>,
    <<4334, 4334, <<4334>>>>, <<4335, 4335, <<4335>>>>, <<4336, 4336, <<4336>>>>,
    <<4337, 4337, <<4337>>>>, <<4338, 4338, <<4338>>>>, <<4339, 4339, <<4339>>>>,
    <<4340, 4340, <<4340>>>>, <<4341, 4341, <<4341>>>>, <<4342, 4342, <<4342>>>>,
    <<4343, 4343, <<4343>>>>, <<4344, 4344, <<4344>>>>, <<4345, 4345, <<4345>>>>,
    <<4346, 4346, <<4346>>>>, <<4349, 4349, <<4349>>>>, <<4350, 4350, <<4350>>>>,
    <<4351, 4351, <<4351>>>>, <<8064, 8064, <<8072>>>>, <<8065, 8065, <<8073>>>>,
    <<8066, 8066, <<8074>>>>, <<8067, 8067, <<8075>>>>, <<8068, 8068, <<8076>>>>,
    <<8069, 8069, <<8077>>>>, <<8070, 8070, <<8078>>>>, <<8071, 8071, <<8079>>>>,
    <<8072, 8072, <<8072>>>>, <<8073, 8073, <<8073>>>>, <<8074, 8074, <<8074>>>>,
    <<8075, 8075, <<8075>>>>, <<8076, 8076, <<8076>>>>, <<8077, 8077, <<8077>>>>,
    <<8078, 8078, <<8078>>>>, <<8079, 8079, <<8079>>>>, <<8080, 8080, <<8088>>>>,
    <<8081, 8081, <<8089>>>>, <<8082, 8082, <<8090>>>>, <<8083, 8083, <<8091>>>>,
    <<8084, 8084, <<8092>>>>, <<8085, 8085, <<8093>>>>, <<8086, 8086, <<8094>>>>,
    <<8087, 8087, <<8095>>>>, <<8088, 8088, <<8088>>>>, <<8089, 8089, <<8089>>>>,
    <<8090, 8090, <<8090>>>>, <<8091, 8091, <<8091>>>>, <<8092, 8092, <<8092>>>>,
    <<8093, 8093, <<8093>>>>, <<8094, 8094, <<8094>>>>, <<8095, 8095, <<8095>>>>,
    <<8096, 8096, <<8104>>>>, <<8097, 8097, <<8105>>>>, <<8098, 8098, <<8106>>>>,
    <<8099, 8099, <<8107>>>>, <<8100, 8100, <<8108>>>>, <<8101, 8101, <<8109>>>>,
    <<8102, 8102, <<8110>>>>, <<8103, 8103, <<8111>>>>, <<8104, 8104, <<8104>>>>,
    <<8105, 8105, <<8105>>>>, <<8106, 8106, <<8106>>>>, <<8107, 8107, <<8107>>>>,
    <<8108, 8108, <<8108>>>>, <<8109, 8109, <<8109>>>>, <<8110, 8110, <<8110>>>>,
    <<8111, 8111, <<8111>>>>, <<8114, 8114, <<8122, 837>>>>, <<8115, 8115, <<8124>>>>,
    <<8116, 8116, <<902, 837>>>>, <<8119, 8119, <<913, 834, 837>>>>, <<8124, 8124, <<8124>>>>,
    <<8130, 8130, <<8138, 837>>>>, <<8131, 8131, <<8140>>>>, <<8132, 8132, <<905, 837>>>>,
    <<8135, 8135, <<919, 834, 837>>>>, <<8140, 8140, <<8140>>>>, <<8178, 8178, <<8186, 837>>>>,
    <<8179, 8179, <<8188>>>>, <<8180, 8180, <<911, 837>>>>, <<8183, 8183, <<937, 834, 837>>>>,
    <<8188, 8188, <<8188>>>>, <<64256, 64256, <<70, 102>>>>, <<64257, 64257, <<70, 105>>>>,
    <<64258, 64258, <<70, 108>>>>, <<64259, 64259, <<70, 102, 105>>>>,
    <<64260, 64260, <<70, 102, 108>>>>, <<64261, 64261, <<83, 116>>>>,
    <<64262, 64262, <<83, 116>>>>, <<64275, 64275, <<1348, 1398>>>>,
    <<64276, 64276, <<1348, 1381>>>>, <<64277, 64277, <<1348, 1387>>>>,
    <<64278, 64278, <<1358, 1398>>>>, <<64279, 64279, <<1348, 1389>>>>
  >>

\* binary search: the index in the table t of the range that holds c among
\* t[lo]..t[hi], 0 when there is none
RECURSIVE Find(_, _, _, _)
Find(t, c, lo, hi) ==
    IF lo > hi THEN 0
    ELSE LET m == (lo + hi) \div 2
         IN  IF c < t[m][1] THEN Find(t, c, lo, m - 1)
             ELSE IF c > t[m][2] THEN Find(t, c, m + 1, hi)
             ELSE m

InRanges(t, c) == Find(t, c, 1, Len(t)) # 0

\* the full case mapping of c by a table of special mappings and a table of
\* ranges: a string
Mapped(special, rngs, c) ==
    LET s == Find(special, c, 1, Len(special))
        m == Find(rngs, c, 1, Len(rngs))
    IN  IF s # 0 THEN special[s][3]
        ELSE IF m # 0 /\ (c - rngs[m][1]) % rngs[m][3] = 0 THEN <<c + rngs[m][4]>>
        ELSE <<c>>

\* the regex class \d (ASCII answered without the tables, as the interpreter does)
IsDigit(c) == IF c < 128 THEN 48 <= c /\ c <= 57 ELSE InRanges(DecimalRanges, c)

\* the regex class \w: alphanumeric (letter, decimal, digit, numeric) or _
IsWord(c) ==
    IF c < 128
    THEN (48 <= c /\ c <= 57) \/ (65 <= c /\ c <= 90) \/ c = 95 \/ (97 <= c /\ c <= 122)
    ELSE InRanges(WordRanges, c)

IsCased(c) == InRanges(CasedRanges, c)

IsCaseIgnorable(c) == InRanges(CaseIgnorableRanges, c)

\* the upper case of one character: a string
CharUpper(c) ==
    IF c < 128 THEN (IF 97 <= c /\ c <= 122 THEN <<c - 32>> ELSE <<c>>)
    ELSE Mapped(ToUpperSpecial, ToUpperRanges, c)

\* the lower case of one character, out of context: a string
CharLower(c) ==
    IF c < 128 THEN (IF 65 <= c /\ c <= 90 THEN <<c + 32>> ELSE <<c>>)
    ELSE Mapped(ToLowerSpecial, ToLowerRanges, c)

\* the title case of one character: a string
CharTitle(c) ==
    IF c < 128 THEN CharUpper(c)
    ELSE LET t == Find(ToTitleExceptions, c, 1, Len(ToTitleExceptions))
         IN  IF t # 0 THEN ToTitleExceptions[t][3] ELSE CharUpper(c)

\* str.upper()
RECURSIVE upper(_)
upper(s) == IF s = <<>> THEN <<>> ELSE CharUpper(Head(s)) \o upper(Tail(s))

\* the nearest character at or before j that is not case-ignorable is cased
RECURSIVE CasedBefore(_, _)
CasedBefore(s, j) ==
    IF j < 1 THEN FALSE
    ELSE IF IsCaseIgnorable(s[j]) THEN CasedBefore(s, j - 1)
    ELSE IsCased(s[j])

\* the nearest character at or after j that is not case-ignorable is cased
RECURSIVE CasedAfter(_, _)
CasedAfter(s, j) ==
    IF j > Len(s) THEN FALSE
    ELSE IF IsCaseIgnorable(s[j]) THEN CasedAfter(s, j + 1)
    ELSE IsCased(s[j])

\* the lower case of the capital sigma at i: the final sigma when a cased
\* letter precedes it and none follows it
handle_capital_sigma(s, i) ==
    IF CasedBefore(s, i - 1) /\ ~CasedAfter(s, i + 1)
    THEN GREEK_SMALL_LETTER_FINAL_SIGMA
    ELSE GREEK_SMALL_LETTER_SIGMA

\* the lower case of the character at i of s: a string
lower_ucs4(s, i) ==
    IF s[i] = GREEK_CAPITAL_LETTER_SIGMA THEN <<handle_capital_sigma(s, i)>>
    ELSE CharLower(s[i])

\* the characters of s from i on, lower-cased
RECURSIVE lower_from(_, _)
lower_from(s, i) ==
    IF i > Len(s) THEN <<>> ELSE lower_ucs4(s, i) \o lower_from(s, i + 1)

\* str.capitalize(): the first character title-cased, all the others lower-cased
capitalize(s) == IF s = <<>> THEN <<>> ELSE CharTitle(s[1]) \o lower_from(s, 2)

\* a faulty variant of lstrip: the first character dropped whatever it is (x[1:])
lstrip_first(s, chars) == IF s # <<>> THEN Tail(s) ELSE s

\* str.lstrip(chars): drop the leading characters that belong to chars
RECURSIVE lstrip(_, _)
lstrip(s, chars) ==
    IF s # <<>> /\ Head(s) \in chars THEN lstrip(Tail(s), chars) ELSE s

\* str.split(sep) for a one-character sep: always at least one piece
RECURSIVE split(_, _)
split(s, sep) ==
    IF \A i \in DOMAIN s : s[i] # sep
    THEN <<s>>
    ELSE LET k == CHOOSE i \in DOMAIN s :
                      s[i] = sep /\ \A j \in 1..(i - 1) : s[j] # sep
         IN  <<SubSeq(s, 1, k - 1)>> \o split(SubSeq(s, k + 1, Len(s)), sep)

\* a faulty variant of slice0: the slice list[0:n-1]
slice0_short(list, n) == SubSeq(list, 1, IF n - 1 < Len(list) THEN n - 1 ELSE Len(list))

\* the slice list[0:n]
slice0(list, n) == SubSeq(list, 1, IF n < Len(list) THEN n ELSE Len(list))

\* sep.join(list)
RECURSIVE join(_, _)
join(sep, list) ==
    IF list = <<>> THEN <<>>
    ELSE IF Len(list) = 1 THEN list[1]
    ELSE list[1] \o sep \o join(sep, Tail(list))

(***************************************************************************)
(* The outcome of a call.                                                  *)
(***************************************************************************)
\* the call returned v
Ok(v) == [ok |-> TRUE, val |-> v, exc |-> "none"]

\* the call raised (the assert of NameFilter.__call__ failed): no value
Raise == [ok |-> FALSE, val |-> <<>>, exc |-> "AssertionError"]

\* the call could not be made: a keyword argument names a positional parameter
\* that is already bound ("got multiple values for argument")
TypeError == [ok |-> FALSE, val |-> <<>>, exc |-> "TypeError"]

(***************************************************************************)
(* The string literals of the module, character by character.              *)
(***************************************************************************)
windows == str(<<"w","i","n","d","o","w","s">>)

linux == str(<<"l","i","n","u","x">>)

freebsd == str(<<"f","r","e","e","b","s","d">>)

macos == str(<<"m","a","c","o","s">>)

winnt == str(<<"w","i","n","n","t">>)

win == str(<<"w","i","n">>)

i686 == str(<<"i","6","8","6">>)

x86_64 == str(<<"x","8","6","_","6","4">>)

ARMv8 == str(<<"A","R","M","v","8">>)

ARMv7 == str(<<"A","R","M","v","7">>)

x86 == str(<<"x","8","6">>)

x64 == str(<<"x","6","4">>)

aarch64 == str(<<"a","a","r","c","h","6","4">>)

armv7l == str(<<"a","r","m","v","7","l">>)

win_i686 == str(<<"w","i","n","-","i","6","8","6">>)

win_x86_64 == str(<<"w","i","n","-","x","8","6","_","6","4">>)

macos_x86_64 == str(<<"m","a","c","o","s","-","x","8","6","_","6","4">>)

linux_ARMv7 == str(<<"l","i","n","u","x","-","A","R","M","v","7">>)

linux_ARMv8 == str(<<"l","i","n","u","x","-","A","R","M","v","8">>)

win32 == str(<<"w","i","n","3","2">>)

win64 == str(<<"w","i","n","6","4">>)

mac64 == str(<<"m","a","c","6","4">>)

linux_armv7l == str(<<"l","i","n","u","x","-","a","r","m","v","7","l">>)

linux_aarch64 == str(<<"l","i","n","u","x","-","a","a","r","c","h","6","4">>)

exe == str(<<"e","x","e">>)

tar_gz == str(<<"t","a","r",".","g","z">>)

dmg == str(<<"d","m","g">>)

latest == str(<<"l","a","t","e","s","t">>)

nightly == str(<<"n","i","g","h","t","l","y">>)

stable == str(<<"s","t","a","b","l","e">>)

(***************************************************************************)
(* Module constants: the special versions, the rule tables, the closed     *)
(* vocabularies.                                                           *)
(***************************************************************************)
SPECIAL_VERSION_NAMES == {latest, nightly, stable}

rule_sys == (windows :> winnt)

rules_os == (windows :> win)

rules_arch == (i686 :> x86) @@ (x86_64 :> x64) @@ (ARMv8 :> aarch64) @@ (ARMv7 :> armv7l)

\* a faulty variant of rules_osarch: the linux keys spelt with the canonical arch names
rules_osarch_canonical ==
    (win_i686 :> win32) @@ (win_x86_64 :> win64) @@ (macos_x86_64 :> mac64)
    @@ (linux_armv7l :> linux_armv7l) @@ (linux_aarch64 :> linux_aarch64)

rules_osarch ==
    (win_i686 :> win32) @@ (win_x86_64 :> win64) @@ (macos_x86_64 :> mac64)
    @@ (linux_ARMv7 :> linux_armv7l) @@ (linux_ARMv8 :> linux_aarch64)

rules_extension ==
    (windows :> exe) @@ (linux :> tar_gz) @@ (macos :> dmg) @@ (freebsd :> tar_gz)

\* a faulty variant of rules_bit: the two ARM widths exchanged
rules_bit_swapped == (i686 :> 32) @@ (x86_64 :> 64) @@ (ARMv8 :> 32) @@ (ARMv7 :> 64)

rules_bit == (i686 :> 32) @@ (x86_64 :> 64) @@ (ARMv8 :> 64) @@ (ARMv7 :> 32)

VALID_SYSTEM == {windows, linux, freebsd, macos}

VALID_OS == {win, linux, freebsd, macos}

\* list(rules_arch.keys())
VALID_ARCHITECTURE == DOMAIN rules_arch

\* list(rules_arch.values())
VALID_ARCH == {rules_arch[k] : k \in DOMAIN rules_arch}

(***************************************************************************)
(* VERSION_REGEX.match: v\d+\.\d+\.\d+(-\w+)? matched at the start of the  *)
(* string, nothing required of what follows the match.                     *)
(***************************************************************************)
\* \d+ is greedy: where the run of digits that starts at i ends
DigitsEnd(s, i) ==
    CHOOSE j \in i..(Len(s) + 1) :
        /\ \A k \in i..(j - 1) : IsDigit(s[k])
        /\ (j = Len(s) + 1 \/ ~IsDigit(s[j]))

\* \w+ is greedy: where the run of word characters that starts at i ends
WordEnd(s, i) ==
    CHOOSE j \in i..(Len(s) + 1) :
        /\ \A k \in i..(j - 1) : IsWord(s[k])
        /\ (j = Len(s) + 1 \/ ~IsWord(s[j]))

CharAt(s, i, c) == i <= Len(s) /\ s[i] = c

NoMatch == [matched |-> FALSE, end |-> 0]

\* a faulty variant of VERSION_REGEX_match: fullmatch, the whole string must be matched
VERSION_REGEX_fullmatch(s) ==
    IF ~CharAt(s, 1, LATIN_SMALL_LETTER_V) THEN NoMatch
    ELSE LET a == DigitsEnd(s, 2) IN
    IF a = 2 \/ ~CharAt(s, a, FULL_STOP) THEN NoMatch
    ELSE LET b == DigitsEnd(s, a + 1) IN
    IF b = a + 1 \/ ~CharAt(s, b, FULL_STOP) THEN NoMatch
    ELSE LET c == DigitsEnd(s, b + 1) IN
    IF c = b + 1 THEN NoMatch
    ELSE LET d == IF CharAt(s, c, HYPHEN_MINUS) THEN WordEnd(s, c + 1) ELSE c IN
         IF (IF d > c + 1 THEN d ELSE c) = Len(s) + 1
         THEN [matched |-> TRUE, end |-> Len(s)]
         ELSE NoMatch

\* end: the index of the last character of the match
VERSION_REGEX_match(s) ==
    IF ~CharAt(s, 1, LATIN_SMALL_LETTER_V) THEN NoMatch
    ELSE LET a == DigitsEnd(s, 2) IN
    IF a = 2 \/ ~CharAt(s, a, FULL_STOP) THEN NoMatch
    ELSE LET b == DigitsEnd(s, a + 1) IN
    IF b = a + 1 \/ ~CharAt(s, b, FULL_STOP) THEN NoMatch
    ELSE LET c == DigitsEnd(s, b + 1) IN
    IF c = b + 1 THEN NoMatch
    ELSE LET d == IF CharAt(s, c, HYPHEN_MINUS) THEN WordEnd(s, c + 1) ELSE c IN
         [matched |-> TRUE, end |-> IF d > c + 1 THEN d - 1 ELSE c - 1]

(***************************************************************************)
(* Validators.                                                             *)
(***************************************************************************)
identity(a) == IF Len(a) = 1 THEN a[1] ELSE a

no_validate(a) == TRUE

is_system(system) == system \in VALID_SYSTEM

\* a faulty variant of is_os: tested against the system names
is_os_system(os) == os \in VALID_SYSTEM

is_os(os) == os \in VALID_OS

\* a faulty variant of is_architecture: tested against the canonical short names
is_architecture_short(arch) == arch \in VALID_ARCH

is_architecture(arch) == arch \in VALID_ARCHITECTURE

is_arch(arch) == arch \in VALID_ARCH

is_version(version) ==
    IF version \in SPECIAL_VERSION_NAMES
    THEN TRUE
    ELSE VERSION_REGEX_match(version).matched

\* a faulty variant of is_valid_release: latest rejected only when both tests fail
is_valid_release_and(version, system, architecture) ==
    IF system = windows /\ architecture \notin {i686, x86_64} THEN FALSE
    ELSE IF system = macos /\ architecture \notin {x86_64} THEN FALSE
    ELSE IF system = freebsd /\ architecture \notin {x86_64} THEN FALSE
    ELSE IF version = latest /\ (/\ architecture \notin {i686, x86_64}
                                 /\ system \notin {windows, macos, linux}) THEN FALSE
    ELSE TRUE

is_valid_release(version, system, architecture) ==
    IF system = windows /\ architecture \notin {i686, x86_64} THEN FALSE
    ELSE IF system = macos /\ architecture \notin {x86_64} THEN FALSE
    ELSE IF system = freebsd /\ architecture \notin {x86_64} THEN FALSE
    ELSE IF version = latest /\ (\/ architecture \notin {i686, x86_64}
                                 \/ system \notin {windows, macos, linux}) THEN FALSE
    ELSE TRUE

(***************************************************************************)
(* NameFilter.  A filter is called on the tuple a of its positional        *)
(* arguments.  NameFilter is __call__: validated is validate(args), key   *)
(* the outcome of f(args) (an outcome, because the f of a casing filter   *)
(* calls another filter, whose assert may fail), rules the table.          *)
(***************************************************************************)
\* rules if rules else {}
EmptyRules == <<>>

\* rules.get(key, key)
rules_get(rules, key) == IF key \in DOMAIN rules THEN rules[key] ELSE key

\* a faulty variant of NameFilter: the assert is left out
NameFilter_unchecked(validated, key, rules) ==
    IF ~key.ok THEN Raise ELSE Ok(rules_get(rules, key.val))

\* assert self.validate(args); return self.rules.get(self.f(args), self.f(args))
NameFilter(validated, key, rules) ==
    IF ~validated THEN Raise
    ELSE IF ~key.ok THEN Raise
    ELSE Ok(rules_get(rules, key.val))

\* r.capitalize() for the outcome r of a filter call: its exception propagates
capitalized(r) == IF r.ok THEN Ok(capitalize(r.val)) ELSE Raise

\* r.upper() for the outcome r of a filter call: its exception propagates
uppered(r) == IF r.ok THEN Ok(upper(r.val)) ELSE Raise

f_major_version(a) ==
    NameFilter(is_version(a[1]),
               Ok(split(lstrip(a[1], {LATIN_SMALL_LETTER_V}), FULL_STOP)[1]),
               EmptyRules)

f_vmajor_version(a) ==
    NameFilter(no_validate(a), Ok(split(a[1], FULL_STOP)[1]), EmptyRules)

f_Vmajor_version(a) ==
    NameFilter(no_validate(a), capitalized(f_vmajor_version(<<a[1]>>)), EmptyRules)

f_minor_version(a) ==
    NameFilter(is_version(a[1]),
               Ok(join(str(<<".">>),
                       slice0(split(lstrip(a[1], {LATIN_SMALL_LETTER_V}), FULL_STOP), 2))),
               EmptyRules)

f_vminor_version(a) ==
    NameFilter(no_validate(a), Ok(join(str(<<".">>), slice0(split(a[1], FULL_STOP), 2))), EmptyRules)

f_Vminor_version(a) ==
    NameFilter(no_validate(a), capitalized(f_vminor_version(<<a[1]>>)), EmptyRules)

f_patch_version(a) ==
    NameFilter(is_version(a[1]),
               Ok(split(lstrip(a[1], {LATIN_SMALL_LETTER_V}), HYPHEN_MINUS)[1]),
               EmptyRules)

f_vpatch_version(a) ==
    NameFilter(no_validate(a), Ok(split(a[1], HYPHEN_MINUS)[1]), EmptyRules)

f_Vpatch_version(a) ==
    NameFilter(no_validate(a), capitalized(f_vpatch_version(<<a[1]>>)), EmptyRules)

f_version(a) == NameFilter(is_version(a[1]), Ok(identity(a)), EmptyRules)

f_system(a) == NameFilter(is_system(a[1]), Ok(identity(a)), EmptyRules)

f_System(a) == NameFilter(no_validate(a), capitalized(f_system(<<a[1]>>)), EmptyRules)

f_SYSTEM(a) == NameFilter(no_validate(a), uppered(f_system(<<a[1]>>)), EmptyRules)

f_sys(a) == NameFilter(is_system(a[1]), Ok(identity(a)), rule_sys)

f_Sys(a) == NameFilter(no_validate(a), capitalized(f_sys(<<a[1]>>)), EmptyRules)

f_SYS(a) == NameFilter(no_validate(a), uppered(f_sys(<<a[1]>>)), EmptyRules)

f_os(a) == NameFilter(is_system(a[1]), Ok(identity(a)), rules_os)

f_Os(a) == NameFilter(no_validate(a), capitalized(f_os(<<a[1]>>)), EmptyRules)

f_OS(a) == NameFilter(no_validate(a), uppered(f_os(<<a[1]>>)), EmptyRules)

f_arch(a) == NameFilter(is_architecture(a[1]), Ok(identity(a)), rules_arch)

f_Arch(a) == NameFilter(no_validate(a), capitalized(f_arch(<<a[1]>>)), EmptyRules)

f_ARCH(a) == NameFilter(no_validate(a), uppered(f_arch(<<a[1]>>)), EmptyRules)

f_osarch(a) ==
    NameFilter(is_os(a[1]) /\ is_architecture(a[2]),
               Ok(a[1] \o str(<<"-">>) \o a[2]),
               rules_osarch)

f_Osarch(a) ==
    NameFilter(no_validate(a), capitalized(f_osarch(<<a[1], a[2]>>)), EmptyRules)

f_OSarch(a) ==
    NameFilter(no_validate(a), uppered(f_osarch(<<a[1], a[2]>>)), EmptyRules)

f_bit(a) == NameFilter(is_architecture(a[1]), Ok(identity(a)), rules_bit)

f_extension(a) == NameFilter(is_system(a[1]), Ok(identity(a)), rules_extension)

(***************************************************************************)
(* generate_info.                                                          *)
(***************************************************************************)
\* a faulty variant of dict_update: the entries already in d are kept (other.update(d))
dict_update_first_wins(d, other) ==
    [k \in (DOMAIN d) \cup (DOMAIN other) |-> IF k \in DOMAIN d THEN d[k] ELSE other[k]]

\* d.update(other) followed by reading d: the entries of other win
dict_update(d, other) ==
    [k \in (DOMAIN d) \cup (DOMAIN other) |-> IF k \in DOMAIN other THEN other[k] ELSE d[k]]

\* the positional parameters of generate_info
ParameterNames == {"plain_version", "system", "architecture"}

generate_info(plain_version, system, architecture, kw) ==
    IF (DOMAIN kw) \cap ParameterNames # {} THEN TypeError
    ELSE
    LET os == f_os(<<system>>)
        arch == f_arch(<<architecture>>)
    IN  IF ~os.ok \/ ~arch.ok THEN Raise
        ELSE
        LET configs ==
              [system         |-> Ok(system),
               System         |-> f_System(<<system>>),
               SYSTEM         |-> f_SYSTEM(<<system>>),
               sys            |-> f_sys(<<system>>),
               Sys            |-> f_Sys(<<system>>),
               SYS            |-> f_SYS(<<system>>),
               os             |-> os,
               Os             |-> f_Os(<<system>>),
               OS             |-> f_OS(<<system>>),
               architecture   |-> Ok(architecture),
               Arch           |-> f_Arch(<<architecture>>),
               arch           |-> arch,
               ARCH           |-> f_ARCH(<<architecture>>),
               osarch         |-> f_osarch(<<os.val, architecture>>),
               Osarch         |-> f_Osarch(<<os.val, architecture>>),
               OSarch         |-> f_OSarch(<<os.val, architecture>>),
               bit            |-> f_bit(<<architecture>>),
               extension      |-> f_extension(<<system>>),
               version        |-> f_version(<<plain_version>>),
               major_version  |-> f_major_version(<<plain_version>>),
               vmajor_version |-> f_vmajor_version(<<plain_version>>),
               minor_version  |-> f_minor_version(<<plain_version>>),
               vminor_version |-> f_vminor_version(<<plain_version>>),
               patch_version  |-> f_patch_version(<<plain_version>>),
               vpatch_version |-> f_vpatch_version(<<plain_version>>)]
        IN  IF \E k \in DOMAIN configs : ~configs[k].ok THEN Raise
            ELSE Ok(dict_update(kw, [k \in DOMAIN configs |-> configs[k].val]))

(***************************************************************************)
(* The filters by name, for calls made on a filter directly.               *)
(***************************************************************************)
UnaryFilters ==
    {"f_major_version", "f_vmajor_version", "f_Vmajor_version",
     "f_minor_version", "f_vminor_version", "f_Vminor_version",
     "f_patch_version", "f_vpatch_version", "f_Vpatch_version", "f_version",
     "f_system", "f_System", "f_SYSTEM", "f_sys", "f_Sys", "f_SYS",
     "f_os", "f_Os", "f_OS", "f_arch", "f_Arch", "f_ARCH", "f_bit", "f_extension"}

BinaryFilters == {"f_osarch", "f_Osarch", "f_OSarch"}

CallFilter(name, a) ==
    CASE name = "f_major_version"  -> f_major_version(a)
      [] name = "f_vmajor_version" -> f_vmajor_version(a)
      [] name = "f_Vmajor_version" -> f_Vmajor_version(a)
      [] name = "f_minor_version"  -> f_minor_version(a)
      [] name = "f_vminor_version" -> f_vminor_version(a)
      [] name = "f_Vminor_version" -> f_Vminor_version(a)
      [] name = "f_patch_version"  -> f_patch_version(a)
      [] name = "f_vpatch_version" -> f_vpatch_version(a)
      [] name = "f_Vpatch_version" -> f_Vpatch_version(a)
      [] name = "f_version"        -> f_version(a)
      [] name = "f_system"         -> f_system(a)
      [] name = "f_System"         -> f_System(a)
      [] name = "f_SYSTEM"         -> f_SYSTEM(a)
      [] name = "f_sys"            -> f_sys(a)
      [] name = "f_Sys"            -> f_Sys(a)
      [] name = "f_SYS"            -> f_SYS(a)
      [] name = "f_os"             -> f_os(a)
      [] name = "f_Os"             -> f_Os(a)
      [] name = "f_OS"             -> f_OS(a)
      [] name = "f_arch"           -> f_arch(a)
      [] name = "f_Arch"           -> f_Arch(a)
      [] name = "f_ARCH"           -> f_ARCH(a)
      [] name = "f_osarch"         -> f_osarch(a)
      [] name = "f_Osarch"         -> f_Osarch(a)
      [] name = "f_OSarch"         -> f_OSarch(a)
      [] name = "f_bit"            -> f_bit(a)
      [] name = "f_extension"      -> f_extension(a)

(***************************************************************************)
(* The inputs explored.                                                    *)
(***************************************************************************)
\* digit runs of length 0..MaxDigits for major, minor and patch
DigitRuns(src) == {SubSeq(src, 1, n) : n \in 0..MaxDigits}

VersionPrefixes == {<<>>, str(<<"v">>), str(<<"v","v">>), str(<<"V">>)}

VersionTails ==
    {<<>>, str(<<"-","b","e","t","a">>), str(<<"x","y","z">>), str(<<"-","b","-","c">>),
     str(<<".","4">>), str(<<"-">>)}

\* well-formed versions and their near misses
ShapedVersions ==
    {p \o ma \o s1 \o mi \o s2 \o pa \o t :
        p \in VersionPrefixes,
        ma \in DigitRuns(str(<<"1","0","2","4">>)),
        s1 \in {str(<<".">>), <<>>},
        mi \in DigitRuns(str(<<"2","0","5","1">>)),
        s2 \in {str(<<".">>), str(<<"-">>)},
        pa \in DigitRuns(str(<<"3","9","0","7">>)),
        t \in VersionTails}

\* strings with non-ASCII characters, written by code point: versions whose
\* digits are Arabic-Indic (1632..), fullwidth (65296..), Devanagari (2406..),
\* Thai (3664..) or mathematical bold (120782..); a status with e-circumflex
\* (234), a-grave (224), superscript two (178) or a CJK ideograph (20013); and
\* strings the unvalidated filters capitalize: e-acute (233, 201), sharp s
\* (223), the digraph dz-caron (454, 453, 452), I with dot above (304), A-grave
\* (192), n preceded by apostrophe (329), the ligature fi (64257), and the
\* capital sigma (931) final, before a letter, and before a full stop
UnicodeVersions ==
    {str(<<"v">>) \o <<1633>> \o str(<<".">>) \o <<1634>> \o str(<<".">>) \o <<1635>>,
     str(<<"v","1",".","2",".">>) \o <<1635>>,
     str(<<"v">>) \o <<65297>> \o str(<<".">>) \o <<65298>> \o str(<<".">>) \o <<65299>>,
     str(<<"v">>) \o <<2409>> \o str(<<".">>) \o <<2407>> \o str(<<".">>) \o <<2408>>,
     str(<<"v","1",".","2",".">>) \o <<3664>>,
     str(<<"v">>) \o <<120782>> \o str(<<".","1",".","1">>),
     str(<<"v","1",".","2",".","3","-","b">>) \o <<234>> \o str(<<"t","a">>),
     str(<<"v","1",".","2",".","3","-">>) \o <<224>> \o str(<<"b">>),
     str(<<"v","1",".","2",".","3","-">>) \o <<20013>>,
     str(<<"v","1",".","2",".","3","-">>) \o <<178>>,
     str(<<"v","1",".">>) \o <<178>> \o str(<<".","3">>),
     <<233>> \o str(<<"1",".","2">>),
     str(<<"x">>) \o <<201>> \o str(<<"-","b">>),
     <<223>> \o str(<<"a">>),
     <<454>> \o str(<<"a",".">>) \o <<452>>,
     str(<<"x">>) \o <<304>>,
     <<224>> \o str(<<"a">>),
     str(<<"x">>) \o <<192>>,
     <<329>> \o str(<<"x">>),
     <<64257>> \o str(<<"x">>),
     str(<<"a">>) \o <<931>>,
     str(<<"a">>) \o <<931>> \o str(<<"b">>),
     str(<<"a">>) \o <<931>> \o str(<<".","b">>),
     str(<<"a",".">>) \o <<931>> \o str(<<"-","b">>),
     <<931>>}

Versions ==
    SPECIAL_VERSION_NAMES
    \cup {str(<<"l","a","t","e","s","t","x">>), str(<<"L","a","t","e","s","t">>),
          str(<<"v","s","t","a","b","l","e">>), str(<<"v","1",".","2">>), <<>>}
    \cup UnicodeVersions
    \cup ShapedVersions

\* win is a short os name, not a system
Systems == VALID_SYSTEM \cup {win}

\* x86 is a canonical arch name, not an architecture
Architectures == VALID_ARCHITECTURE \cup {x86}

ExtraValue(k) == IF k = "bit" THEN 16 ELSE str(<<"c","u","s","t","o","m">>)

\* the keyword arguments a caller passes besides the three positional ones
ExtraFields ==
    {[k \in ks |-> ExtraValue(k)] : ks \in {{}, {"os", "version", "bit", "tag"}, {"system", "tag"}}}

\* the strings a filter is called on directly
FilterInputs ==
    Systems \cup Architectures \cup VALID_OS \cup VALID_ARCH
    \cup {str(<<"W","i","n","d","o","w","s">>), str(<<"a","r","m","6","4">>)}
    \cup {v \in Versions : Len(v) <= 7}

(***************************************************************************)
(* The state: the call made on the freshly imported module (the module    *)
(* itself keeps no state between calls), its arguments and its outcome.    *)
(***************************************************************************)
Init ==
    /\ op = "import"
    /\ args = <<>>
    /\ kwargs = <<>>
    /\ result = Ok(<<>>)

call_generate_info ==
    /\ op = "import"
    /\ \E v \in Versions, s \in Systems, a \in Architectures, kw \in ExtraFields :
        /\ op' = "generate_info"
        /\ args' = <<v, s, a>>
        /\ kwargs' = kw
        /\ result' = generate_info(v, s, a, kw)

call_is_valid_release ==
    /\ op = "import"
    /\ \E v \in Versions, s \in Systems, a \in Architectures :
        /\ op' = "is_valid_release"
        /\ args' = <<v, s, a>>
        /\ kwargs' = <<>>
        /\ result' = Ok(is_valid_release(v, s, a))

call_is_version ==
    /\ op = "import"
    /\ \E v \in Versions :
        /\ op' = "is_version"
        /\ args' = <<v>>
        /\ kwargs' = <<>>
        /\ result' = Ok(is_version(v))

call_unary_filter ==
    /\ op = "import"
    /\ \E name \in UnaryFilters, x \in FilterInputs :
        /\ op' = name
        /\ args' = <<x>>
        /\ kwargs' = <<>>
        /\ result' = CallFilter(name, <<x>>)

call_binary_filter ==
    /\ op = "import"
    /\ \E name \in BinaryFilters, os \in FilterInputs, arch \in Architectures :
        /\ op' = name
        /\ args' = <<os, arch>>
        /\ kwargs' = <<>>
        /\ result' = CallFilter(name, <<os, arch>>)

Next ==
    \/ call_generate_info
    \/ call_is_valid_release
    \/ call_is_version
    \/ call_unary_filter
    \/ call_binary_filter

Spec == Init /\ [][Next]_vars

(***************************************************************************)
(* Vocabulary of the properties.                                           *)
(***************************************************************************)
IsInfoCall == op = "generate_info"

\* the keyword arguments bind: none of them names a positional parameter
KeywordsBind == (DOMAIN kwargs) \cap {"plain_version", "system", "architecture"} = {}

\* the 25 names generate_info derives
DerivedFields ==
    {"system", "System", "SYSTEM", "sys", "Sys", "SYS", "os", "Os", "OS",
     "architecture", "arch", "Arch", "ARCH", "osarch", "Osarch", "OSarch",
     "bit", "extension", "version",
     "major_version", "minor_version", "patch_version",
     "vmajor_version", "vminor_version", "vpatch_version"}

CapitalizedVFields == {"Vmajor_version", "Vminor_version", "Vpatch_version"}

ValidTriple ==
    /\ args[2] \in {windows, linux, freebsd, macos}
    /\ args[3] \in {i686, x86_64, ARMv8, ARMv7}
    /\ is_version(args[1])

AllDigits(s) == s # <<>> /\ \A i \in DOMAIN s : IsDigit(s[i])

AllWord(s) == s # <<>> /\ \A i \in DOMAIN s : IsWord(s[i])

\* where s has a dot
Dots(s) == {i \in DOMAIN s : s[i] = FULL_STOP}

\* s begins v<digits>.<digits>.<digits>, the dots at i and j, the patch ending at k
VersionShapeAt(s, i, j, k) ==
    /\ 2 < i /\ i + 1 < j /\ j < k /\ k <= Len(s)
    /\ s[1] = LATIN_SMALL_LETTER_V /\ s[i] = FULL_STOP /\ s[j] = FULL_STOP
    /\ AllDigits(SubSeq(s, 2, i - 1))
    /\ AllDigits(SubSeq(s, i + 1, j - 1))
    /\ AllDigits(SubSeq(s, j + 1, k))

\* s is exactly v<major>.<minor>.<patch> or v<major>.<minor>.<patch>-<status>
ExactVersionAt(s, i, j, k) ==
    /\ VersionShapeAt(s, i, j, k)
    /\ \/ k = Len(s)
       \/ k + 1 < Len(s) /\ s[k + 1] = HYPHEN_MINUS /\ AllWord(SubSeq(s, k + 2, Len(s)))

(***************************************************************************)
(* C1.                                                                     *)
(***************************************************************************)
\* C1 as stated: an extra field named like a derived field keeps the caller's
\* value in the mapping generate_info returns.
C1_ExtraFieldWins ==
    (IsInfoCall /\ result.ok) =>
        \A k \in (DOMAIN kwargs) \cap DerivedFields : result.val[k] = kwargs[k]

\* C1 amended: an extra field named like a derived field is overwritten by the
\* derived value (kwargs.update(configs): the derived fields are written last);
\* an extra field with any other name is returned as the caller gave it, and the
\* mapping holds the derived names and the extra names, nothing else.  The
\* derived names system and architecture cannot be given as extra fields: they
\* are positional parameters and the call raises TypeError.
C1_DerivedFieldWins ==
    /\ (IsInfoCall /\ ~KeywordsBind) => (~result.ok /\ result.exc = "TypeError")
    /\ (IsInfoCall /\ result.ok) =>
        /\ KeywordsBind
        /\ DOMAIN result.val = DerivedFields \cup DOMAIN kwargs
        /\ \A k \in DOMAIN kwargs :
              IF k \in DerivedFields
              THEN /\ result.val[k] = generate_info(args[1], args[2], args[3], <<>>).val[k]
                   /\ result.val[k] # kwargs[k]
              ELSE result.val[k] = kwargs[k]

C1_Witness ==
    /\ IsInfoCall /\ result.ok
    /\ {"os", "version", "bit", "tag"} \subseteq DOMAIN kwargs
    /\ args[2] = windows /\ result.val.os = win /\ result.val.bit = 64

(***************************************************************************)
(* C2.                                                                     *)
(***************************************************************************)
\* C2: generate_info raises exactly when the system is not one of the four
\* systems, or the architecture not one of the four architectures, or
\* is_version(plain_version) is false; when it raises nothing is returned, and
\* every other triple returns a mapping, releases is_valid_release rejects
\* included.
C2_FailsIffInvalidInput ==
    (IsInfoCall /\ KeywordsBind) =>
        /\ result.exc = "AssertionError" <=> ~result.ok
        /\ ~result.ok <=> (\/ args[2] \notin {windows, linux, freebsd, macos}
                           \/ args[3] \notin {i686, x86_64, ARMv8, ARMv7}
                           \/ ~is_version(args[1]))
        /\ ~result.ok => DOMAIN result.val = {}
        /\ result.ok => DerivedFields \subseteq DOMAIN result.val

C2_Witness ==
    /\ IsInfoCall /\ result.ok
    /\ args = <<latest, freebsd, ARMv7>>
    /\ ~is_valid_release(args[1], args[2], args[3])

(***************************************************************************)
(* C3.                                                                     *)
(***************************************************************************)
\* C3 as stated: with no extra fields the mapping holds every field of the
\* catalog, Vmajor_version, Vminor_version and Vpatch_version included.
C3_AllCatalogFields ==
    (IsInfoCall /\ ValidTriple /\ DOMAIN kwargs = {}) =>
        /\ result.ok
        /\ DerivedFields \cup CapitalizedVFields \subseteq DOMAIN result.val

\* C3 amended: with no extra fields the mapping holds exactly the 25 fields
\* system .. vpatch_version; the capitalized v-preserved fields Vmajor_version,
\* Vminor_version and Vpatch_version are not in it.
C3_TwentyFiveFields ==
    (IsInfoCall /\ ValidTriple /\ DOMAIN kwargs = {}) =>
        /\ result.ok
        /\ DOMAIN result.val = DerivedFields
        /\ Cardinality(DOMAIN result.val) = Cardinality(DerivedFields)
        /\ CapitalizedVFields \cap DOMAIN result.val = {}

C3_Witness ==
    /\ IsInfoCall /\ ValidTriple /\ DOMAIN kwargs = {} /\ result.ok
    /\ args[2] = macos /\ args[3] = ARMv8
    /\ "vpatch_version" \in DOMAIN result.val

(***************************************************************************)
(* C4.                                                                     *)
(***************************************************************************)
\* C4: is_valid_release returns a boolean for every triple, also outside the
\* vocabularies, and it is false exactly for windows off {i686, x86_64}, macos
\* off x86_64, freebsd off x86_64, and latest off {i686, x86_64} or off
\* {windows, macos, linux}.
C4_ValidRelease ==
    op = "is_valid_release" =>
        /\ result.ok
        /\ result.val \in BOOLEAN
        /\ ~result.val <=>
              \/ args[2] = windows /\ args[3] # i686 /\ args[3] # x86_64
              \/ args[2] = macos /\ args[3] # x86_64
              \/ args[2] = freebsd /\ args[3] # x86_64
              \/ /\ args[1] = latest
                 /\ \/ (args[3] # i686 /\ args[3] # x86_64)
                    \/ (args[2] # windows /\ args[2] # macos /\ args[2] # linux)

C4_Witness ==
    /\ op = "is_valid_release"
    /\ args[1] = nightly /\ args[2] = linux /\ args[3] = ARMv7
    /\ result.val = TRUE

(***************************************************************************)
(* C5.                                                                     *)
(***************************************************************************)
\* C5: for plain_version exactly v<major>.<minor>.<patch>[-<status>],
\* major_version is <major>, minor_version <major>.<minor>, patch_version
\* <major>.<minor>.<patch>, the v-fields are these with v in front, and version
\* is plain_version.
C5_VersionFields ==
    (IsInfoCall /\ KeywordsBind) =>
        \A i, j \in Dots(args[1]), k \in 1..Len(args[1]) :
            (ExactVersionAt(args[1], i, j, k)
                /\ args[2] \in VALID_SYSTEM /\ args[3] \in VALID_ARCHITECTURE) =>
                /\ result.ok
                /\ result.val.version = args[1]
                /\ result.val.major_version = SubSeq(args[1], 2, i - 1)
                /\ result.val.minor_version = SubSeq(args[1], 2, j - 1)
                /\ result.val.patch_version = SubSeq(args[1], 2, k)
                /\ result.val.vmajor_version = str(<<"v">>) \o result.val.major_version
                /\ result.val.vminor_version = str(<<"v">>) \o result.val.minor_version
                /\ result.val.vpatch_version = str(<<"v">>) \o result.val.patch_version

C5_Witness ==
    /\ IsInfoCall /\ result.ok
    /\ args[1] = str(<<"v","1","0",".","2",".","3","-","b","e","t","a">>)
    /\ ExactVersionAt(args[1], 4, 6, 7)
    /\ result.val.minor_version = str(<<"1","0",".","2">>)
    /\ result.val.vpatch_version = str(<<"v","1","0",".","2",".","3">>)

(***************************************************************************)
(* C6.                                                                     *)
(***************************************************************************)
\* C6: is_version(v) is true exactly when v is latest, nightly or stable, or v
\* begins v<digits>.<digits>.<digits>; what follows that prefix is not looked at.
\* A digit is any character \d matches: the ASCII digits and the other Unicode
\* decimal digits (Devanagari ones in the example).
C6_IsVersion ==
    op = "is_version" =>
        /\ result.val <=>
              \/ args[1] \in {latest, nightly, stable}
              \/ \E i, j \in Dots(args[1]), k \in 1..Len(args[1]) :
                    VersionShapeAt(args[1], i, j, k)
        /\ args[1] = str(<<"v","1",".","2",".","3","x","y","z">>) => result.val
        /\ args[1] = str(<<"v","1",".","2",".","3","-","b","e","t","a">>) => result.val
        /\ args[1] = str(<<"1",".","2",".","3">>) => ~result.val
        /\ args[1] = str(<<"v","1",".","2">>) => ~result.val
        /\ args[1] = str(<<"v">>) \o <<2409>> \o str(<<".">>) \o <<2407>> \o str(<<".">>) \o <<2408>> =>
              result.val
        /\ args[1] = str(<<"v","1",".">>) \o <<178>> \o str(<<".","3">>) => ~result.val

C6_Witness ==
    /\ op = "is_version"
    /\ args[1] = str(<<"v","1",".","2",".","3","x","y","z">>)
    /\ result.val = TRUE

(***************************************************************************)
(* C7.                                                                     *)
(***************************************************************************)
\* C7: sys, os, arch, bit and extension are the table entries of the system or
\* the architecture (the input itself where the table has none), and system and
\* architecture are returned unchanged.
C7_TableFields ==
    (IsInfoCall /\ result.ok) =>
        /\ result.val.system = args[2]
        /\ result.val.architecture = args[3]
        /\ result.val.sys = (IF args[2] = windows THEN winnt ELSE args[2])
        /\ result.val.os = (IF args[2] = windows THEN win ELSE args[2])
        /\ result.val.arch = (CASE args[3] = i686 -> x86
                                [] args[3] = x86_64 -> x64
                                [] args[3] = ARMv8 -> aarch64
                                [] args[3] = ARMv7 -> armv7l)
        /\ result.val.bit = (IF args[3] \in {i686, ARMv7} THEN 32 ELSE 64)
        /\ result.val.extension = (CASE args[2] = windows -> exe
                                     [] args[2] = linux -> tar_gz
                                     [] args[2] = macos -> dmg
                                     [] args[2] = freebsd -> tar_gz)

C7_Witness ==
    /\ IsInfoCall /\ result.ok
    /\ args[2] = windows /\ args[3] = ARMv7
    /\ result.val.sys = winnt /\ result.val.bit = 32 /\ result.val.extension = exe

(***************************************************************************)
(* C8.                                                                     *)
(***************************************************************************)
\* C8: osarch is looked up under <os>-<architecture>, os the short alias and
\* architecture the raw name: the table entry for the five keys of the table,
\* the key itself otherwise; Osarch and OSarch are that value capitalized and
\* upper-cased.
C8_Osarch ==
    (IsInfoCall /\ result.ok) =>
        LET key == (IF args[2] = windows THEN win ELSE args[2]) \o str(<<"-">>) \o args[3]
        IN  /\ result.val.osarch =
                 (CASE key = win_i686 -> win32
                    [] key = win_x86_64 -> win64
                    [] key = macos_x86_64 -> mac64
                    [] key = linux_ARMv7 -> linux_armv7l
                    [] key = linux_ARMv8 -> linux_aarch64
                    [] OTHER -> key)
            /\ result.val.Osarch = capitalize(result.val.osarch)
            /\ result.val.OSarch = upper(result.val.osarch)
            /\ args[2] = freebsd /\ args[3] = ARMv8 =>
                 /\ result.val.Osarch =
                      str(<<"F","r","e","e","b","s","d","-","a","r","m","v","8">>)
                 /\ result.val.OSarch =
                      str(<<"F","R","E","E","B","S","D","-","A","R","M","V","8">>)

C8_Witness ==
    /\ IsInfoCall /\ result.ok
    /\ args[2] = linux /\ args[3] = ARMv8
    /\ result.val.osarch = linux_aarch64
    /\ result.val.OSarch = str(<<"L","I","N","U","X","-","A","A","R","C","H","6","4">>)

(***************************************************************************)
(* C9.                                                                     *)
(***************************************************************************)
SystemFilters ==
    {"f_system", "f_System", "f_SYSTEM", "f_sys", "f_Sys", "f_SYS",
     "f_os", "f_Os", "f_OS", "f_extension"}

ArchitectureFilters == {"f_arch", "f_Arch", "f_ARCH", "f_bit"}

VersionFilters == {"f_version", "f_major_version", "f_minor_version", "f_patch_version"}

\* what validate(args) is for the filter, or for the base filter its f calls
FilterAccepts(name, a) ==
    CASE name \in SystemFilters -> a[1] \in {windows, linux, freebsd, macos}
      [] name \in ArchitectureFilters -> a[1] \in {i686, x86_64, ARMv8, ARMv7}
      [] name \in VersionFilters -> is_version(a[1])
      [] name \in BinaryFilters ->
            a[1] \in {win, linux, freebsd, macos} /\ a[2] \in {i686, x86_64, ARMv8, ARMv7}
      [] OTHER -> TRUE

\* the rules table of the filter, or of the base filter its f calls
FilterRules(name) ==
    CASE name \in {"f_sys", "f_Sys", "f_SYS"} -> rule_sys
      [] name \in {"f_os", "f_Os", "f_OS"} -> rules_os
      [] name \in {"f_arch", "f_Arch", "f_ARCH"} -> rules_arch
      [] name = "f_bit" -> rules_bit
      [] name = "f_extension" -> rules_extension
      [] name \in BinaryFilters -> rules_osarch
      [] OTHER -> <<>>

\* rules[key] when key is a key of rules, key otherwise
Lookup(rules, key) ==
    IF \E k \in DOMAIN rules : k = key THEN rules[key] ELSE key

\* C9: a filter whose validate rejects the arguments raises; otherwise it
\* returns rules[f(args)] when f(args) is a key of rules and f(args) when not;
\* a casing filter raises on an input its base filter rejects, and on any other
\* input returns the base filter's value capitalized or upper-cased.
C9_NameFilter ==
    (op \in UnaryFilters \cup BinaryFilters) =>
        /\ result.ok <=> FilterAccepts(op, args)
        /\ ~result.ok => DOMAIN result.val = {}
        /\ (result.ok /\ op \in {"f_system", "f_version"}) => result.val = args[1]
        /\ (result.ok /\ op \in {"f_sys", "f_os", "f_arch", "f_bit", "f_extension"}) =>
              result.val = Lookup(FilterRules(op), args[1])
        /\ (result.ok /\ op = "f_osarch") =>
              result.val = Lookup(FilterRules(op), args[1] \o str(<<"-">>) \o args[2])
        /\ (result.ok /\ op \in {"f_System", "f_Sys", "f_Os", "f_Arch"}) =>
              result.val = capitalize(Lookup(FilterRules(op), args[1]))
        /\ (result.ok /\ op \in {"f_SYSTEM", "f_SYS", "f_OS", "f_ARCH"}) =>
              result.val = upper(Lookup(FilterRules(op), args[1]))
        /\ (result.ok /\ op = "f_Osarch") =>
              result.val = capitalize(Lookup(FilterRules(op), args[1] \o str(<<"-">>) \o args[2]))
        /\ (result.ok /\ op = "f_OSarch") =>
              result.val = upper(Lookup(FilterRules(op), args[1] \o str(<<"-">>) \o args[2]))

\* a casing filter, built with the always-true validator, raising on an input
\* its base filter rejects
C9_Witness ==
    /\ op = "f_Sys"
    /\ args = <<win>>
    /\ ~result.ok

(***************************************************************************)
(* C10.                                                                    *)
(***************************************************************************)
\* C10: for plain_version latest, nightly or stable and a valid system and
\* architecture, generate_info returns, and version, major_version,
\* minor_version, patch_version, vmajor_version, vminor_version and
\* vpatch_version all equal plain_version.
C10_SpecialVersions ==
    (/\ IsInfoCall /\ KeywordsBind
     /\ args[1] \in {latest, nightly, stable}
     /\ args[2] \in {windows, linux, freebsd, macos}
     /\ args[3] \in {i686, x86_64, ARMv8, ARMv7}) =>
        /\ result.ok
        /\ \A k \in {"version", "major_version", "minor_version", "patch_version",
                     "vmajor_version", "vminor_version", "vpatch_version"} :
              result.val[k] = args[1]

C10_Witness ==
    /\ IsInfoCall /\ result.ok
    /\ args[1] = stable
    /\ result.val.patch_version = stable
    /\ result.val.vmajor_version = stable

====
